---- MODULE Spec2Model ----
(***************************************************************************)
(* A model of the RLM playground backend core:                             *)
(*   - RLMStreamController (controller.py): one WebSocket session, a       *)
(*     producer and a consumer sharing one asyncio.Queue;                  *)
(*   - RLM.aforward (service.py) and RLMStatusMessageProvider              *)
(*     (status_provider.py): step records, ids and the scope stack;        *)
(*   - RLMREPL.execute (repl.py) and the Worker (worker.py).               *)
(* The reasoning engine (dspy) is an external collaborator: it calls the   *)
(* lifecycle hooks in any order and ends with a prediction or a fault.     *)
(***************************************************************************)
EXTENDS Integers, Sequences, FiniteSets, TLC

\* ---------------------------------------------------------------- bounds
\* Number of engine events (hooks and tool executions) in one run of a whole
\* session (Spec).
MaxHooks == 2
\* Number of engine events in one run of the producer side alone (SpecTrace).
MaxTraceHooks == 4

\* Number of tokens of a code snippet given to RLMREPL.execute.
MaxCode == 3
\* Number of add_tool calls before execute.
MaxAdds == 2
\* The timeout the RLMREPL was built with, in clock ticks.
Timeout == 2
\* How far the clock is followed.
MaxClock == 4
\* Number of statements of a snippet whose Worker is followed from the start
\* of exec (SpecProto).
MaxProg == 3
\* Number of execute calls that return and are followed by another call
\* (SpecSnippets).
MaxReturns == 1
\* Number of statements of a snippet that binds and reads a name
\* (SpecSnippets).
MaxBinds == 2

\* ------------------------------------------------------------- constants
\* "no id": parent_id None, an empty correlation id (ids start at 1).
NoId == 0
\* An empty result / error slot.
None == "None"

VARIABLES
    \* --- RLMStreamController.handle
    pc,            \* position of handle()
    connected,     \* the WebSocket accepts sends
    connBroken,    \* history: the connection broke before close was called
    request,       \* the validated RLMRequest, or None
    received,      \* history: the initial request as receive_json returned it
    queue,         \* StreamContext.queue
    result,        \* StreamContext.result
    error,         \* StreamContext.error
    prod,          \* the _produce task
    cons,          \* the _consume task
    sent,          \* messages the client received, in order
    errAttempts,   \* number of send_json({"error": ...}) calls
    errText,       \* whose str() the last _handle_error call put in its message
    enq,           \* history: every item put on the queue, in order
    closeCalls,    \* number of websocket.close() calls
    \* --- event loop
    ready,         \* callbacks handed to loop.call_soon_threadsafe, FIFO
    \* --- reasoning engine (external) and RLM
    engine,        \* "idle", "running", "finished"
    hooks,         \* number of engine events so far
    budget,        \* bound: number of engine events the run may have
    engOpen,       \* history: scopes the engine really has open (kinds)
    nested,        \* history: every end hook so far matched the open scope
    workers,       \* history: number of RLMREPL.execute calls
    streamEnd,     \* history: how the engine's stream ended (NoEnd before)
    \* --- RLMStatusMessageProvider
    step_id,       \* the id counter
    module_stack,  \* the open-scope stack
    emitted,       \* history: every record handed to _emit, in order
    openAt,        \* history: module_stack when each record was emitted
    pushes,        \* history: ids appended to module_stack
    pops,          \* history: ids popped from module_stack (NoId: empty pop)
    loopClosed,    \* the session's event loop has shut down
    emitRaised,    \* history: types of the records whose emission raised
    step_data,     \* the record a hook has built and not yet handed to _emit
    \* --- RLMREPL (the Execution Coordinator)
    rpc,           \* position of execute()
    tools,         \* RLMREPL.tools: name -> callable
    adds,          \* number of add_tool calls so far
    lastAdd,       \* the arguments of the most recent add_tool call
    context,       \* self.context
    variables,     \* self.variables
    execs,         \* number of execute calls that have returned to their caller
    code,          \* the code argument of execute
    processed,     \* processed_code
    ctxArtifact,   \* the context temp file exists
    codeArtifact,  \* the code temp file exists
    context_file,  \* the local context_file is set (not None)
    code_file,     \* the local code_file is set (not None)
    final_result,  \* the local final_result
    retval,        \* what execute returned
    clock,         \* ticks elapsed while execute waits for the Worker
    \* --- the Worker process
    wpc,           \* position of worker.main
    manifest,      \* the --tools argument: names that get a proxy
    prog,          \* statements of the snippet still to run
    outbuf,        \* OutputBuffer.buffer: the texts printed so far
    usage_globals, \* the exec namespace of the snippet: name -> value
    everBound,     \* the names bound by any snippet of any execute call so far
    stdinClosed,   \* the Coordinator closed the Worker's stdin while it ran
    wout,          \* Worker stdout: lines written and not yet read
    win,           \* Worker stdin: lines written and not yet read
    wlines,        \* history: every line the Worker wrote, in order
    exitCode,      \* the Worker's exit status (NoExit while it runs)
    werr,          \* the Worker's stderr holds diagnostic text
    proxied        \* history: what each proxy call read as its response

sessVars == <<pc, connected, connBroken, request, received, queue, result,
              error, prod, cons, sent, errAttempts, errText, enq, closeCalls, ready,
              engine, hooks, budget, engOpen, nested, workers, streamEnd>>
traceVars == <<step_id, module_stack, emitted, openAt, pushes, pops,
               loopClosed, emitRaised, step_data>>
replVars == <<rpc, context, variables, execs, tools, adds, lastAdd, code, processed, ctxArtifact, codeArtifact,
              context_file, code_file, final_result, retval, clock>>
workerVars == <<wpc, manifest, prog, outbuf, usage_globals, everBound,
                stdinClosed, wout, win, wlines, exitCode,
                werr, proxied>>
vars == <<sessVars, traceVars, replVars, workerVars>>

\* ----------------------------------------------------------------- helpers
Last(s) == s[Len(s)]
Front(s) == SubSeq(s, 1, Len(s) - 1)
RECURSIVE SelectK(_, _)
\* The messages / queue items of kind k in s, in order.
SelectK(s, k) ==
    IF s = <<>> THEN <<>>
    ELSE IF Head(s).k = k THEN <<Head(s)>> \o SelectK(Tail(s), k)
    ELSE SelectK(Tail(s), k)
CountK(s, k) == Len(SelectK(s, k))
RECURSIVE StepsOf(_)
\* The StepRecords carried by the "step" items of s, in order.
StepsOf(s) ==
    IF s = <<>> THEN <<>>
    ELSE IF Head(s).k = "step" THEN <<Head(s).step>> \o StepsOf(Tail(s))
    ELSE StepsOf(Tail(s))

\* ------------------------------------------------ RLMStatusMessageProvider
\* An id allocator that forgets to increment the counter.
next_id_stuck(n) == n

\* _next_id: the counter after the increment, which is the id returned.
next_id(n) == n + 1

\* _current_parent: the stack top, or None at the root.
current_parent(stack) == IF stack # <<>> THEN stack[Len(stack)] ELSE NoId

StepRecord(id, parent, type, ref) ==
    [id |-> id, parent_id |-> parent, type |-> type, ref |-> ref]

\* No record is held between its construction and its hand-off.
NoStep == StepRecord(NoId, NoId, "none", NoId)

\* The records whose loop.call_soon_threadsafe call is not inside a
\* try/except: those of llm_query and of aforward.  _emit and execute_python
\* catch and log.
Unguarded == {"sub_llm_call", "thinking", "error", "complete"}

\* loop.call_soon_threadsafe(callback, step_data): returns at once; the
\* callback runs in a later iteration of the loop, after those scheduled
\* before it.  On a closed loop it raises RuntimeError and schedules nothing;
\* the fault reaches the emitter's caller unless the emitter catches it.
call_soon_threadsafe(rdy, rec) ==
    /\ ready' = IF loopClosed THEN rdy ELSE Append(rdy, [k |-> "cb", step |-> rec])
    /\ emitted' = Append(emitted, rec)
    /\ emitRaised' = IF loopClosed /\ rec.type \in Unguarded
                     THEN emitRaised \cup {rec.type}
                     ELSE emitRaised
    /\ UNCHANGED loopClosed

\* lm_start_status_message / lm_end_status_message, and the code_execution
\* and sub_llm_call records of RLM: a leaf.
LeafEmit(type) ==
    /\ step_id' = next_id(step_id)
    /\ call_soon_threadsafe(ready,
           StepRecord(next_id(step_id), current_parent(module_stack), type, NoId))
    /\ openAt' = Append(openAt, module_stack)
    /\ UNCHANGED <<module_stack, pushes, pops, step_data>>

\* A scope-start hook that pushes its id before it reads the parent.
StartEmitPushFirst(type) ==
    /\ step_id' = next_id(step_id)
    /\ module_stack' = Append(module_stack, next_id(step_id))
    /\ call_soon_threadsafe(ready,
           StepRecord(next_id(step_id), next_id(step_id), type, NoId))
    /\ openAt' = Append(openAt, module_stack)
    /\ pushes' = Append(pushes, next_id(step_id))
    /\ UNCHANGED <<pops, step_data>>

\* tool_start_status_message / module_start_status_message.
StartEmit(type) ==
    /\ step_id' = next_id(step_id)
    /\ call_soon_threadsafe(ready,
           StepRecord(next_id(step_id), current_parent(module_stack), type, NoId))
    /\ openAt' = Append(openAt, module_stack)
    /\ module_stack' = Append(module_stack, next_id(step_id))
    /\ pushes' = Append(pushes, next_id(step_id))
    /\ UNCHANGED <<pops, step_data>>

\* A scope-end hook that reads the parent before it pops.
EndEmitStale(type) ==
    LET popped == IF module_stack # <<>> THEN Last(module_stack) ELSE NoId
        rest == IF module_stack # <<>> THEN Front(module_stack) ELSE <<>>
    IN  /\ step_id' = next_id(step_id)
        /\ module_stack' = rest
        /\ pops' = Append(pops, popped)
        /\ call_soon_threadsafe(ready,
               StepRecord(next_id(step_id), current_parent(module_stack), type, popped))
        /\ openAt' = Append(openAt, rest)
        /\ UNCHANGED <<pushes, step_data>>

\* A scope-end hook that emits the end record under the popped id instead
\* of a new one.
EndEmitReusesId(type) ==
    LET popped == IF module_stack # <<>> THEN Last(module_stack) ELSE NoId
        rest == IF module_stack # <<>> THEN Front(module_stack) ELSE <<>>
    IN  /\ step_id' = next_id(step_id)
        /\ module_stack' = rest
        /\ pops' = Append(pops, popped)
        /\ call_soon_threadsafe(ready,
               StepRecord(popped, current_parent(rest), type, popped))
        /\ openAt' = Append(openAt, rest)
        /\ UNCHANGED <<pushes, step_data>>

\* A scope-end hook that forgets to pop.
EndEmitNoPop(type) ==
    /\ step_id' = next_id(step_id)
    /\ call_soon_threadsafe(ready,
           StepRecord(next_id(step_id), current_parent(module_stack), type,
                      current_parent(module_stack)))
    /\ openAt' = Append(openAt, module_stack)
    /\ UNCHANGED <<module_stack, pushes, pops, step_data>>

\* A scope-end hook that pops without looking: on an empty stack the pop
\* raises and the hook emits nothing.
EndEmitPopsBlind(type) ==
    IF module_stack = <<>>
    THEN /\ emitRaised' = emitRaised \cup {type}
         /\ UNCHANGED <<step_id, module_stack, emitted, openAt, pushes, pops,
                        loopClosed, step_data, ready>>
    ELSE /\ step_id' = next_id(step_id)
         /\ module_stack' = Front(module_stack)
         /\ pops' = Append(pops, Last(module_stack))
         /\ call_soon_threadsafe(ready,
                StepRecord(next_id(step_id),
                           current_parent(Front(module_stack)), type,
                           Last(module_stack)))
         /\ openAt' = Append(openAt, Front(module_stack))
         /\ UNCHANGED <<pushes, step_data>>

\* tool_end_status_message / module_end_status_message: pop (if any), then
\* allocate the id, then read the parent from the new top.
EndEmit(type) ==
    LET popped == IF module_stack # <<>> THEN Last(module_stack) ELSE NoId
        rest == IF module_stack # <<>> THEN Front(module_stack) ELSE <<>>
    IN  /\ step_id' = next_id(step_id)
        /\ module_stack' = rest
        /\ pops' = Append(pops, popped)
        /\ call_soon_threadsafe(ready,
               StepRecord(next_id(step_id), current_parent(rest), type, popped))
        /\ openAt' = Append(openAt, rest)
        /\ UNCHANGED <<pushes, step_data>>

\* The thinking, error and complete records of RLM.aforward: parent_id None.
RootEmit(rdy, type) ==
    /\ step_id' = next_id(step_id)
    /\ call_soon_threadsafe(rdy, StepRecord(next_id(step_id), NoId, type, NoId))
    /\ openAt' = Append(openAt, module_stack)
    /\ UNCHANGED <<module_stack, pushes, pops, step_data>>

\* ------------------------------------------------------------- RLM.aforward
\* Classes of fault the engine's stream can raise, by what aforward tests:
\* isinstance(e, KeyError), "error" in str(e).lower(), and "ratelimit" or
\* "authentication" in str(e).lower().
Faults == {"KeyError", "KeyErrorHard", "ErrorText", "RateLimit", "Other"}
\* The stream can also raise an ExceptionGroup (the engine runs its own task
\* group): one whose last sub-exception is a fault of class "Other", and one
\* whose last sub-exception is a KeyError with "ratelimit" in its text.
GroupFaults == {"GroupOther", "GroupKeyErrorHard"}
\* aforward's "Unwrap ExceptionGroup": the last sub-exception of a group,
\* the fault itself otherwise.
actual_error(f) ==
    CASE f = "GroupOther" -> "Other"
      [] f = "GroupKeyErrorHard" -> "KeyErrorHard"
      [] OTHER -> f
\* A test that never recognises a KeyError.
IsKeyErrorNever(f) == FALSE

IsKeyError(f) == f \in {"KeyError", "KeyErrorHard"}
HasErrorWord(f) == f \in {"ErrorText", "RateLimit"}
HasHardWord(f) == f \in {"KeyErrorHard", "RateLimit"}

is_parsing_error(f) == (IsKeyError(f) \/ HasErrorWord(f)) /\ ~HasHardWord(f)

\* What aforward returns when it returns: the streamed prediction, the
\* fallback of the recovery branch, or the "no prediction" placeholder.
aforward_result(pred, f) ==
    IF pred THEN "answer"
    ELSE IF f # None THEN "fallback_aforward"
    ELSE "no_prediction"

\* ------------------------------------------------- RLMStreamController
QueryVals == {"absent", "", "text"}
\* Python truthiness of a request field: None and "" are falsy.
Falsy(v) == v \in {"absent", ""}

\* The engine's stream has not ended.
NoEnd == [pred |-> FALSE, fault |-> None]

NoRequest == [got |-> FALSE, query |-> "absent", context |-> "absent"]

DoneItem == [k |-> "done"]
StepItem(rec) == [k |-> "step", step |-> rec]

\* _accept_connection: accept, then create the StreamContext.
Accept ==
    /\ pc = "accept"
    /\ pc' = IF connected THEN "receive" ELSE "error"
    /\ UNCHANGED <<connected, connBroken, request, received, queue, result,
                   error, prod, cons, sent, errAttempts, errText, enq, closeCalls,
                   ready, engine, hooks, budget, engOpen, nested, workers, streamEnd, traceVars, replVars, workerVars>>

\* A validation that rejects only a request missing both fields.
ValidationFailsBoth(q, c) == Falsy(q) /\ Falsy(c)

\* _receive_and_validate: "if not query or not context".
ValidationFails(q, c) == Falsy(q) \/ Falsy(c)

\* _receive_and_validate with a request that arrived, and handle's
\* "if request is None: return".  The send of the error message raises when
\* the client has gone in the meantime.
Receive(q, c, enable) ==
    /\ pc = "receive"
    /\ IF ValidationFails(q, c)
       THEN /\ errAttempts' = errAttempts + 1
            /\ sent' = IF connected THEN Append(sent, [k |-> "error"]) ELSE sent
            /\ pc' = IF connected THEN "close" ELSE "error"
            /\ UNCHANGED <<request, prod, cons, errText>>
       ELSE /\ request' = [query |-> q, context |-> c, enable_sub_llm |-> enable]
            /\ pc' = "pipeline"
            /\ prod' = "start"
            /\ cons' = "run"
            /\ UNCHANGED <<errAttempts, errText, sent>>
    /\ received' = [got |-> TRUE, query |-> q, context |-> c]
    /\ UNCHANGED <<connected, connBroken, queue, result, error, enq,
                   closeCalls, ready, engine, hooks, budget, engOpen, nested, workers, streamEnd,
                   traceVars, replVars, workerVars>>

\* _receive_and_validate when receive_json raises (malformed JSON, or the
\* client is gone): handle's "except Exception".
ReceiveFault ==
    /\ pc = "receive"
    /\ pc' = "error"
    /\ UNCHANGED <<connected, connBroken, request, received, queue, result,
                   error, prod, cons, sent, errAttempts, errText, enq, closeCalls,
                   ready, engine, hooks, budget, engOpen, nested, workers, streamEnd, traceVars, replVars, workerVars>>

\* _produce up to the first await of the stream: RLM(...) is built and
\* aforward emits the "thinking" record and starts the engine.
ProduceStart ==
    /\ prod = "start"
    /\ ~loopClosed
    /\ prod' = "streaming"
    /\ engine' = "running"
    /\ RootEmit(ready, "thinking")
    /\ UNCHANGED <<replVars, workerVars>>
    /\ UNCHANGED <<pc, connected, connBroken, request, received, queue,
                   result, error, cons, sent, errAttempts, errText, enq, closeCalls,
                   hooks, budget, engOpen, nested, workers, streamEnd>>

\* ---- the reasoning engine, on its background context
EngineStep ==
    /\ engine = "running"
    /\ hooks < budget
    /\ hooks' = hooks + 1
    /\ UNCHANGED <<replVars, workerVars>>
    /\ UNCHANGED <<budget, pc, connected, connBroken, request, received, queue,
                   result, error, prod, cons, sent, errAttempts, errText, enq,
                   closeCalls, engine>>

\* What a scope-end hook of the given kind does to the engine's own scopes.
EngineClose(kind) ==
    IF engOpen # <<>> /\ Last(engOpen) = kind
    THEN engOpen' = Front(engOpen) /\ UNCHANGED nested
    ELSE nested' = FALSE /\ UNCHANGED engOpen

HookLmStart ==
    /\ EngineStep
    /\ LeafEmit("lm_call_start")
    /\ UNCHANGED <<engOpen, nested, workers, streamEnd>>

HookLmEnd ==
    /\ EngineStep
    /\ LeafEmit("lm_call_end")
    /\ UNCHANGED <<engOpen, nested, workers, streamEnd>>

HookToolStart ==
    /\ EngineStep
    /\ StartEmit("tool_call_start")
    /\ engOpen' = Append(engOpen, "tool")
    /\ UNCHANGED <<nested, workers, streamEnd>>

HookToolEnd ==
    /\ EngineStep
    /\ EndEmit("tool_call_end")
    /\ EngineClose("tool")
    /\ UNCHANGED <<workers, streamEnd>>

HookModuleStart ==
    /\ EngineStep
    /\ StartEmit("module_start")
    /\ engOpen' = Append(engOpen, "module")
    /\ UNCHANGED <<nested, workers, streamEnd>>

HookModuleEnd ==
    /\ EngineStep
    /\ EndEmit("module_end")
    /\ EngineClose("module")
    /\ UNCHANGED <<workers, streamEnd>>

\* RLM.execute_python: one RLMREPL.execute call, then the code_execution
\* record.
ExecutePython ==
    /\ EngineStep
    /\ workers' = workers + 1
    /\ LeafEmit("code_execution")
    /\ UNCHANGED <<engOpen, nested, streamEnd>>

\* RLM.llm_query, registered only when enable_sub_llm.
LlmQuery ==
    /\ EngineStep
    /\ request.enable_sub_llm
    /\ LeafEmit("sub_llm_call")
    /\ UNCHANGED <<engOpen, nested, workers, streamEnd>>

\* The engine's stream ends: with or without a Prediction chunk, normally
\* (f = None) or by raising f.  The producer task is woken through the loop.
EngineFinish(pred, f) ==
    /\ engine = "running"
    /\ engine' = "finished"
    /\ ready' = Append(ready, [k |-> "wake", pred |-> pred, fault |-> f])
    /\ streamEnd' = [pred |-> pred, fault |-> f]
    /\ UNCHANGED <<pc, connected, connBroken, request, received, queue,
                   result, error, prod, cons, sent, errAttempts, errText, enq,
                   closeCalls, hooks, budget, engOpen, nested, workers,
                   traceVars, replVars, workerVars>>

\* ---- a hook on the background context, step by step
HookTypes == {"lm_call_start", "lm_call_end", "tool_call_start",
              "tool_call_end", "module_start", "module_end",
              "code_execution", "sub_llm_call"}
StartTypes == {"tool_call_start", "module_start"}
EndTypes == {"tool_call_end", "module_end"}
ScopeKind(type) == IF type \in {"tool_call_start", "tool_call_end"}
                   THEN "tool" ELSE "module"

\* A hook / execute_python / llm_query up to its call of _emit (or of
\* call_soon_threadsafe): the pop of a scope-end, _next_id, _current_parent
\* and the step_data dict.
HookBuild(type) ==
    LET popped == IF module_stack # <<>> THEN Last(module_stack) ELSE NoId
        rest == IF module_stack # <<>> THEN Front(module_stack) ELSE <<>>
        stack == IF type \in EndTypes THEN rest ELSE module_stack
        id == next_id(step_id)
    IN  /\ EngineStep
        /\ step_data = NoStep
        /\ type = "sub_llm_call" => request.enable_sub_llm
        /\ step_id' = id
        /\ step_data' = StepRecord(id, current_parent(stack), type,
                                   IF type \in EndTypes THEN popped ELSE NoId)
        /\ module_stack' = stack
        /\ pops' = IF type \in EndTypes THEN Append(pops, popped) ELSE pops
        /\ UNCHANGED pushes
        /\ openAt' = Append(openAt, stack)
        /\ IF type \in StartTypes
           THEN engOpen' = Append(engOpen, ScopeKind(type)) /\ UNCHANGED nested
           ELSE IF type \in EndTypes THEN EngineClose(ScopeKind(type))
           ELSE UNCHANGED <<engOpen, nested>>
        /\ workers' = IF type = "code_execution" THEN workers + 1 ELSE workers
        /\ UNCHANGED <<ready, emitted, loopClosed, emitRaised, streamEnd>>

\* The hook hands its record to the loop; a scope-start then pushes its id;
\* the hook returns.
HookEmit ==
    /\ step_data # NoStep
    /\ call_soon_threadsafe(ready, step_data)
    /\ step_data' = NoStep
    /\ IF step_data.type \in StartTypes
       THEN /\ module_stack' = Append(module_stack, step_data.id)
            /\ pushes' = Append(pushes, step_data.id)
       ELSE UNCHANGED <<module_stack, pushes>>
    /\ UNCHANGED <<step_id, openAt, pops>>
    /\ UNCHANGED <<pc, connected, connBroken, request, received, queue,
                   result, error, prod, cons, sent, errAttempts, errText, enq,
                   closeCalls, engine, hooks, budget, engOpen, nested, workers,
                   streamEnd, replVars, workerVars>>

\* A stream that ends while a hook is still running on the background
\* context.
StreamEndEarly(pred, f) ==
    EngineFinish(pred, f)

\* The engine's stream ends after the engine's last hook has returned.
StreamEnd(pred, f) ==
    /\ step_data = NoStep
    /\ EngineFinish(pred, f)

\* ---- the event loop
\* on_step, run by the loop: "if self._ctx: queue.put_nowait(step_data)".
OnStep ==
    /\ ~loopClosed
    /\ ready # <<>>
    /\ Head(ready).k = "cb"
    /\ ready' = Tail(ready)
    /\ queue' = Append(queue, StepItem(Head(ready).step))
    /\ enq' = Append(enq, StepItem(Head(ready).step))
    /\ UNCHANGED <<pc, connected, connBroken, request, received, result,
                   error, prod, cons, sent, errAttempts, errText, closeCalls, engine,
                   hooks, budget, engOpen, nested, workers, streamEnd, traceVars, replVars, workerVars>>

\* The rest of aforward and of _produce, run without an await in between:
\* the except / "Emit completion data" / return of aforward, then the
\* except clauses and the finally of _produce.
ProduceFinish ==
    /\ prod = "streaming"
    /\ ~loopClosed
    /\ ready # <<>>
    /\ Head(ready).k = "wake"
    /\ LET f == Head(ready).fault
           pred == Head(ready).pred
           raised == f # None /\ ~is_parsing_error(actual_error(f))
       IN  /\ RootEmit(Tail(ready), IF raised THEN "error" ELSE "complete")
           /\ result' = IF ~raised THEN aforward_result(pred, f)
                        ELSE IF IsKeyError(f) THEN "fallback_produce"
                        ELSE result
           /\ error' = IF raised /\ ~IsKeyError(f) THEN f ELSE error
           /\ prod' = IF raised /\ ~IsKeyError(f) THEN "failed" ELSE "done"
    /\ queue' = Append(queue, DoneItem)
    /\ enq' = Append(enq, DoneItem)
    /\ UNCHANGED <<replVars, workerVars>>
    /\ UNCHANGED <<pc, connected, connBroken, request, received, cons, sent,
                   errAttempts, errText, closeCalls, engine, hooks, budget, engOpen, nested,
                   workers, streamEnd>>

\* The event loop shuts down while the engine is still running on its
\* background context: nothing scheduled on the loop runs any more.
LoopClose ==
    /\ engine = "running"
    /\ ~loopClosed
    /\ loopClosed' = TRUE
    /\ UNCHANGED <<step_id, module_stack, emitted, openAt, pushes, pops,
                   emitRaised, step_data, sessVars, replVars, workerVars>>

\* ---- _consume
\* A consumer whose send fault ends it and, through the TaskGroup, the
\* producer.
ConsumeStepAborts ==
    /\ cons = "run"
    /\ queue # <<>>
    /\ Head(queue).k = "step"
    /\ queue' = Tail(queue)
    /\ sent' = IF connected THEN Append(sent, Head(queue)) ELSE sent
    /\ cons' = IF connected THEN cons ELSE "done"
    /\ prod' = IF connected THEN prod ELSE "failed"
    /\ UNCHANGED <<pc, connected, connBroken, request, received, result,
                   error, errAttempts, errText, enq, closeCalls, ready,
                   engine, hooks, budget, engOpen, nested, workers, streamEnd, traceVars, replVars, workerVars>>

\* One turn of the loop for a StepRecord: queue.get, then _send_step, whose
\* send fault is caught and logged.
ConsumeStep ==
    /\ cons = "run"
    /\ queue # <<>>
    /\ Head(queue).k = "step"
    /\ queue' = Tail(queue)
    /\ sent' = IF connected THEN Append(sent, Head(queue)) ELSE sent
    /\ UNCHANGED <<pc, connected, connBroken, request, received, result,
                   error, prod, cons, errAttempts, errText, enq, closeCalls, ready,
                   engine, hooks, budget, engOpen, nested, workers, streamEnd, traceVars, replVars, workerVars>>

\* queue.get returns the sentinel: break.
ConsumeSentinel ==
    /\ cons = "run"
    /\ queue # <<>>
    /\ Head(queue).k = "done"
    /\ queue' = Tail(queue)
    /\ cons' = "done"
    /\ UNCHANGED <<pc, connected, connBroken, request, received, result,
                   error, prod, sent, errAttempts, errText, enq, closeCalls, ready,
                   engine, hooks, budget, engOpen, nested, workers, streamEnd, traceVars, replVars, workerVars>>

\* ---- _run_pipeline: the TaskGroup
\* The producer task ended with a fault: the TaskGroup cancels the consumer
\* at its next suspension point.
CancelConsumer ==
    /\ prod = "failed"
    /\ cons = "run"
    /\ cons' = "cancelled"
    /\ UNCHANGED <<pc, connected, connBroken, request, received, queue,
                   result, error, prod, sent, errAttempts, errText, enq, closeCalls,
                   ready, engine, hooks, budget, engOpen, nested, workers, streamEnd, traceVars, replVars, workerVars>>

\* A pipeline exit that does not wait for the consumer.
PipelineExitEarly ==
    /\ pc = "pipeline"
    /\ prod \in {"done", "failed"}
    /\ pc' = IF prod = "failed" THEN "error" ELSE "final"
    /\ UNCHANGED <<connected, connBroken, request, received, queue, result,
                   error, prod, cons, sent, errAttempts, errText, enq, closeCalls,
                   ready, engine, hooks, budget, engOpen, nested, workers, streamEnd,
                   traceVars, replVars, workerVars>>

\* A pipeline exit that swallows the producer's fault.
PipelineExitSwallow ==
    /\ pc = "pipeline"
    /\ prod \in {"done", "failed"}
    /\ cons \in {"done", "cancelled"}
    /\ pc' = "final"
    /\ UNCHANGED <<connected, connBroken, request, received, queue, result,
                   error, prod, cons, sent, errAttempts, errText, enq, closeCalls,
                   ready, engine, hooks, budget, engOpen, nested, workers, streamEnd,
                   traceVars, replVars, workerVars>>

\* The TaskGroup exits once both tasks have ended; it raises the
\* ExceptionGroup of the producer's fault, which handle catches.
PipelineExit ==
    /\ pc = "pipeline"
    /\ prod \in {"done", "failed"}
    /\ cons \in {"done", "cancelled"}
    /\ pc' = IF prod = "failed" THEN "error" ELSE "final"
    /\ UNCHANGED <<connected, connBroken, request, received, queue, result,
                   error, prod, cons, sent, errAttempts, errText, enq, closeCalls,
                   ready, engine, hooks, budget, engOpen, nested, workers, streamEnd, traceVars, replVars, workerVars>>

\* _send_final_result; a send fault goes to handle's "except Exception".
SendFinal ==
    /\ pc = "final"
    /\ IF result = None
       THEN pc' = "close" /\ UNCHANGED sent
       ELSE IF connected
       THEN /\ sent' = Append(sent, [k |-> "final", answer |-> result])
            /\ pc' = "close"
       ELSE pc' = "error" /\ UNCHANGED sent
    /\ UNCHANGED <<connected, connBroken, request, received, queue, result,
                   error, prod, cons, errAttempts, errText, enq, closeCalls, ready,
                   engine, hooks, budget, engOpen, nested, workers, streamEnd, traceVars, replVars, workerVars>>

\* The fault that leaves "async with TaskGroup" when the producer task
\* raised e: an ExceptionGroup whose sub-exceptions are the tasks' faults.
TaskGroupFault(e) == [exceptions |-> <<e>>]

\* _handle_error's choice of the fault whose str() goes into the message:
\* for an ExceptionGroup the last of its sub-exceptions (one level), for
\* any other fault (a transport fault of receive or send) the fault itself.
handle_error_text ==
    IF prod = "failed" THEN Last(TaskGroupFault(error).exceptions)
    ELSE "TransportFault"

\* An error handler that unwraps aggregates down to a plain fault.
HandleErrorDeep ==
    /\ pc = "error"
    /\ errAttempts' = errAttempts + 1
    /\ errText' = IF prod = "failed" THEN actual_error(error)
                  ELSE "TransportFault"
    /\ sent' = IF connected THEN Append(sent, [k |-> "error"]) ELSE sent
    /\ pc' = "close"
    /\ UNCHANGED <<connected, connBroken, request, received, queue, result,
                   error, prod, cons, enq, closeCalls, ready, engine, hooks, budget,
                   engOpen, nested, workers, streamEnd, traceVars, replVars, workerVars>>

\* An error handler that lets the fault of its own send propagate.
HandleErrorRaises ==
    /\ pc = "error"
    /\ errAttempts' = errAttempts + 1
    /\ errText' = handle_error_text
    /\ sent' = IF connected THEN Append(sent, [k |-> "error"]) ELSE sent
    /\ pc' = IF connected THEN "close" ELSE "raised"
    /\ UNCHANGED <<connected, connBroken, request, received, queue, result,
                   error, prod, cons, enq, closeCalls, ready, engine, hooks, budget,
                   engOpen, nested, workers, streamEnd, traceVars, replVars, workerVars>>

\* _handle_error: one attempt to send the error message, a send fault is
\* swallowed.
HandleError ==
    /\ pc = "error"
    /\ errAttempts' = errAttempts + 1
    /\ errText' = handle_error_text
    /\ sent' = IF connected THEN Append(sent, [k |-> "error"]) ELSE sent
    /\ pc' = "close"
    /\ UNCHANGED <<connected, connBroken, request, received, queue, result,
                   error, prod, cons, enq, closeCalls, ready, engine, hooks, budget,
                   engOpen, nested, workers, streamEnd, traceVars, replVars, workerVars>>

\* A close that lets the fault of websocket.close() propagate.
CloseRaises ==
    /\ pc = "close"
    /\ closeCalls' = closeCalls + 1
    /\ connected' = FALSE
    /\ pc' = IF connected THEN "done" ELSE "raised"
    /\ UNCHANGED <<connBroken, request, received, queue, result, error,
                   prod, cons, sent, errAttempts, errText, enq, ready, engine, hooks, budget,
                   engOpen, nested, workers, streamEnd, traceVars, replVars, workerVars>>

\* _close_connection, in handle's finally; a fault of close is swallowed.
Close ==
    /\ pc = "close"
    /\ closeCalls' = closeCalls + 1
    /\ connected' = FALSE
    /\ pc' = "done"
    /\ UNCHANGED <<connBroken, request, received, queue, result, error,
                   prod, cons, sent, errAttempts, errText, enq, ready, engine, hooks, budget,
                   engOpen, nested, workers, streamEnd, traceVars, replVars, workerVars>>

\* ---- the client
\* The client goes away: every later send raises.
Disconnect ==
    /\ connected
    /\ pc # "done"
    /\ connected' = FALSE
    /\ connBroken' = TRUE
    /\ UNCHANGED <<pc, request, received, queue, result, error, prod, cons,
                   sent, errAttempts, errText, enq, closeCalls, ready, engine, hooks, budget,
                   engOpen, nested, workers, streamEnd, traceVars, replVars, workerVars>>

\* ================================================== RLMREPL and the Worker
\* A code snippet is a sequence of tokens: statements, a real line break
\* "NL", and backslash escapes written out in the text: "ENL" (backslash n),
\* "ESUR" (a \udXXX surrogate escape), "EBAD" (a truncated \x escape).
\* "SUR" is the lone surrogate character that decoding "ESUR" yields.
\* Statements: print('a') ("print"), print('\u00e9') with the non-ASCII letter
\* written literally ("printU") and what decoding turns it into ("printM"),
\* an assignment x = 1 ("bind") and print(x) ("use"), a function definition
\* def f ("def") and an assignment to the name context ("shadow"),
\* a tool call bare ("call") or inside try/except
\* ("trycall"), a bare call through a proxy the snippet made for itself with
\* create_tool_proxy under a name that is not registered ("callx"), raise, sys.exit, an endless loop ("spin"), and raw writes of
\* a malformed tool-call line ("garble") or result line ("badres") on stdout,
\* of a result line whose payload is the empty JSON object ("emptyres"),
\* or of a line of bytes that are not UTF-8 ("badbytes", through
\* sys.stdout.buffer).
Stmts == {"print", "printU", "printM", "call", "trycall", "raise", "exit",
          "spin", "garble", "badres", "badbytes", "bind", "use", "def",
          "shadow", "callx", "emptyres"}
Tokens == {"print", "printU", "call", "raise", "exit", "spin", "NL", "ENL",
           "ESUR", "EBAD"}
Codes == UNION {[1..n -> Tokens] : n \in 0..MaxCode}
Count(s, t) == Cardinality({i \in 1..Len(s) : s[i] = t})

\* code.encode().decode('unicode_escape'): the UTF-8 bytes of the text are
\* read back as Latin-1 with backslash escapes, so each non-ASCII character
\* becomes one character per byte.
DecodeRaises(c) == Count(c, "EBAD") > 0
Decode(c) ==
    [i \in 1..Len(c) |->
        CASE c[i] = "ENL" -> "NL"
          [] c[i] = "ESUR" -> "SUR"
          [] c[i] = "printU" -> "printM"
          [] OTHER -> c[i]]

\* A preprocessing that decodes every code holding an escaped line break.
normalize_any(c) ==
    IF Count(c, "ENL") > 0
    THEN IF DecodeRaises(c) THEN [raised |-> TRUE, code |-> c]
         ELSE [raised |-> FALSE, code |-> Decode(c)]
    ELSE [raised |-> FALSE, code |-> c]

\* The preprocessing of execute: [raised, code].  The first branch decodes
\* unguarded, the second inside try/except.
normalize(c) ==
    IF Count(c, "ENL") > 0 /\ Count(c, "NL") = 0
    THEN IF DecodeRaises(c) THEN [raised |-> TRUE, code |-> c]
         ELSE [raised |-> FALSE, code |-> Decode(c)]
    ELSE IF Count(c, "ENL") > Count(c, "NL") /\ Count(c, "ENL") > 0
    THEN [raised |-> FALSE, code |-> IF DecodeRaises(c) THEN c ELSE Decode(c)]
    ELSE [raised |-> FALSE, code |-> c]

\* f.write(processed_code) with encoding utf-8: a lone surrogate cannot be
\* encoded.
WriteRaises(c) == Count(c, "SUR") > 0

\* Python compiles the snippet: every line holds at most one statement and
\* no stray escape.
RECURSIVE SyntaxOK(_, _)
SyntaxOK(c, lineHasStmt) ==
    IF c = <<>> THEN TRUE
    ELSE IF Head(c) = "NL" THEN SyntaxOK(Tail(c), FALSE)
    ELSE IF Head(c) \in Stmts /\ ~lineHasStmt THEN SyntaxOK(Tail(c), TRUE)
    ELSE FALSE
IsStmt(t) == t \in Stmts
Program(c) == SelectSeq(c, IsStmt)

ToolNames == {"echo", "llm_query"}
Callables == {"returns", "raises"}
\* The same with a callable that returns a value json.dumps rejects.
HostCallables == Callables \cup {"unserializable"}
Unset == "unset"
\* No add_tool call has been made.
NoAdd == [name |-> None, func |-> Unset]
NoResult == [tag |-> "none"]
NoReturn == [success |-> FALSE, error |-> "not returned", output |-> <<>>]
\* process.returncode while the Worker has not exited.
NoExit == -1
\* Exit statuses a snippet passes to sys.exit.
ExitCodes == {0, 3}

\* Python values a snippet passes to a tool proxy, and json.dumps followed by
\* json.loads on them: a tuple comes back as a list.
ArgVals == {"hi", "list", "tuple"}
json_roundtrip(v) == IF v = "tuple" THEN "list" ELSE v

\* A "__RESULT__:" line written by send_message (json.dumps of a dict).
ResultLine(success, err, output) ==
    [tag |-> "RESULT", ok |-> TRUE, success |-> success, error |-> err,
     output |-> output]
\* The "__RESULT__:" line of a successful run: result_data has no error key
\* and carries the variables map.
SuccessLine(output, snap) ==
    [tag |-> "RESULT", ok |-> TRUE, success |-> TRUE, error |-> "none",
     output |-> output, variables |-> snap]
\* The dict json.loads returns for the payload "{}".
EmptyDict == [type |-> "dict", keys |-> {}]
\* A "__RESULT__:{}" line written by the snippet itself on the Worker's
\* stdout: the payload is JSON, an object without keys.
EmptyResultLine == [tag |-> "RESULT", ok |-> TRUE, payload |-> EmptyDict]
\* A "__TOOL_CALL__:" line written by proxy_func: the args are JSON-encoded.
ToolCallLine(name, arg) ==
    [tag |-> "TOOL_CALL", ok |-> TRUE, name |-> name, arg |-> json_roundtrip(arg)]
\* A line with the tag and a payload that is not JSON, written by the snippet
\* itself on the Worker's stdout.
MalformedLine(tag) == [tag |-> tag, ok |-> FALSE]
Failure(err) == [success |-> FALSE, error |-> err, output |-> <<>>]
\* "Process exited without result (Exit code N). Stderr: ...".
ExitFailure(rc, stderr) ==
    [success |-> FALSE, error |-> "exited without result", exit_code |-> rc,
     stderr |-> stderr, output |-> <<>>]

\* The finally of execute: os.unlink of each recorded path that exists.
Unlink(exists, recorded) == IF recorded THEN FALSE ELSE exists

\* A return of execute through its finally, with the artifacts and locals
\* as they are at that point.
Return(val, ctxA, ctxF, codeA, codeF) ==
    /\ retval' = val
    /\ rpc' = "ret"
    /\ context_file' = ctxF
    /\ code_file' = codeF
    /\ ctxArtifact' = Unlink(ctxA, ctxF)
    /\ codeArtifact' = Unlink(codeA, codeF)

\* An add_tool that keeps an earlier registration of the name (setdefault).
AddToolKeepsFirst(name, func) ==
    /\ rpc = "idle"
    /\ adds < MaxAdds
    /\ adds' = adds + 1
    /\ tools' = IF tools[name] = Unset THEN [tools EXCEPT ![name] = func]
                ELSE tools
    /\ lastAdd' = [name |-> name, func |-> func]
    /\ UNCHANGED <<rpc, context, variables, execs, code, processed,
                   ctxArtifact, codeArtifact, context_file, code_file,
                   final_result, retval, clock, workerVars, sessVars,
                   traceVars>>

\* add_tool: self.tools[name] = func.
AddTool(name, func) ==
    /\ rpc = "idle"
    /\ adds < MaxAdds
    /\ adds' = adds + 1
    /\ tools' = [tools EXCEPT ![name] = func]
    /\ lastAdd' = [name |-> name, func |-> func]
    /\ UNCHANGED <<rpc, context, variables, execs, code, processed,
                   ctxArtifact, codeArtifact, context_file, code_file,
                   final_result, retval, clock, workerVars, sessVars,
                   traceVars>>

\* execute is called and the worker script is found: context_file and
\* code_file start as None.
Execute(c) ==
    /\ rpc = "idle"
    /\ rpc' = "ctx"
    /\ code' = c
    /\ context_file' = FALSE
    /\ code_file' = FALSE
    /\ UNCHANGED <<context, variables, execs, tools, adds, lastAdd, processed,
                   ctxArtifact, codeArtifact, final_result, retval, clock,
                   workerVars, sessVars, traceVars>>

\* The caller of execute (execute_python) has its result; the Coordinator
\* is ready for the next call.
ExecuteReturned ==
    /\ rpc = "ret"
    /\ execs < MaxReturns
    /\ execs' = execs + 1
    /\ rpc' = "idle"
    /\ UNCHANGED <<context, variables, tools, adds, lastAdd, code, processed,
                   ctxArtifact, codeArtifact, context_file, code_file,
                   final_result, retval, clock, workerVars, sessVars,
                   traceVars>>

\* execute is called and worker.py is missing: the early return, before the
\* try.
ExecuteNoScript ==
    /\ rpc = "idle"
    /\ rpc' = "ret"
    /\ retval' = Failure("worker script not found")
    /\ UNCHANGED <<context, variables, execs, tools, adds, lastAdd, code, processed, ctxArtifact, codeArtifact,
                   context_file, code_file, final_result, clock,
                   workerVars, sessVars, traceVars>>

\* The context temp file: NamedTemporaryFile(delete=False) creates it,
\* pickle.dump writes it, and only then is context_file assigned.
WriteContext(outcome) ==
    /\ rpc = "ctx"
    /\ CASE outcome = "ok" ->
              /\ ctxArtifact' = TRUE
              /\ context_file' = TRUE
              /\ rpc' = "normalize"
              /\ UNCHANGED <<retval, codeArtifact, code_file>>
         [] outcome = "create_raises" ->
              Return(Failure("exception"), FALSE, FALSE, FALSE, FALSE)
         [] outcome = "dump_raises" ->
              Return(Failure("exception"), TRUE, FALSE, FALSE, FALSE)
    /\ UNCHANGED <<context, variables, execs, tools, adds, lastAdd, code, processed, final_result, clock,
                   workerVars, sessVars, traceVars>>

\* A preprocessing outside the try: a decoding fault leaves execute.
NormalizeUnguarded ==
    /\ rpc = "normalize"
    /\ IF normalize(code).raised
       THEN /\ rpc' = "raised"
            /\ UNCHANGED <<processed, retval, ctxArtifact, codeArtifact,
                           context_file, code_file>>
       ELSE /\ processed' = normalize(code).code
            /\ rpc' = "codefile"
            /\ UNCHANGED <<retval, ctxArtifact, codeArtifact, context_file, code_file>>
    /\ UNCHANGED <<context, variables, execs, tools, adds, lastAdd, code, final_result, clock, workerVars,
                   sessVars, traceVars>>

\* The preprocessing of the code, inside the try of execute: a fault in it
\* is returned by the generic handler.
Normalize ==
    /\ rpc = "normalize"
    /\ IF normalize(code).raised
       THEN /\ Return(Failure("exception"), ctxArtifact, context_file, FALSE, FALSE)
            /\ UNCHANGED processed
       ELSE /\ processed' = normalize(code).code
            /\ rpc' = "codefile"
            /\ UNCHANGED <<retval, ctxArtifact, codeArtifact, context_file, code_file>>
    /\ UNCHANGED <<context, variables, execs, tools, adds, lastAdd, code, final_result, clock, workerVars,
                   sessVars, traceVars>>

\* The code temp file: created, written, and only then is code_file
\* assigned.
WriteCode(outcome) ==
    /\ rpc = "codefile"
    /\ WriteRaises(processed) => outcome # "ok"
    /\ CASE outcome = "ok" ->
              /\ codeArtifact' = TRUE
              /\ code_file' = TRUE
              /\ rpc' = "launch"
              /\ UNCHANGED <<retval, ctxArtifact, context_file>>
         [] outcome = "create_raises" ->
              Return(Failure("exception"), ctxArtifact, context_file, FALSE, FALSE)
         [] outcome = "write_raises" ->
              Return(Failure("exception"), ctxArtifact, context_file, TRUE, FALSE)
    /\ UNCHANGED <<context, variables, execs, tools, adds, lastAdd, code, processed, final_result, clock,
                   workerVars, sessVars, traceVars>>

\* subprocess.Popen of the Worker with the comma-joined tool names.
Launch(outcome) ==
    /\ rpc = "launch"
    /\ CASE outcome = "ok" ->
              /\ rpc' = "read"
              /\ final_result' = NoResult
              /\ wpc' = "loadctx"
              /\ manifest' = {n \in ToolNames : tools[n] # Unset}
              /\ prog' = <<>>
              /\ outbuf' = <<>>
              /\ stdinClosed' = FALSE
              /\ wout' = <<>>
              /\ win' = <<>>
              /\ wlines' = <<>>
              /\ exitCode' = NoExit
              /\ werr' = FALSE
              /\ proxied' = <<>>
              /\ UNCHANGED <<retval, ctxArtifact, codeArtifact, context_file, code_file>>
         [] outcome = "popen_raises" ->
              /\ Return(Failure("exception"), ctxArtifact, context_file,
                        codeArtifact, code_file)
              /\ UNCHANGED <<final_result, wpc, manifest, prog, outbuf, stdinClosed,
                             wout, win, wlines, exitCode, werr, proxied>>
    /\ UNCHANGED <<context, variables, execs, tools, adds, lastAdd, code,
                   processed, clock, usage_globals, everBound, sessVars,
                   traceVars>>

\* _handle_tool_call: the response written to the Worker's stdin.  A line
\* whose payload does not parse takes the outer except, which also writes a
\* response; so does a return value that json.dumps rejects.
handle_tool_call(line) ==
    IF ~line.ok THEN [status |-> "error", error |-> "IPC Protocol Error"]
    ELSE IF line.name \in ToolNames /\ tools[line.name] = "unserializable"
    THEN [status |-> "error", error |-> "IPC Protocol Error"]
    ELSE IF line.name \in ToolNames /\ tools[line.name] = "returns"
    THEN [status |-> "success", result |-> json_roundtrip(line.arg)]
    ELSE IF line.name \in ToolNames /\ tools[line.name] = "raises"
    THEN [status |-> "error", error |-> "tool error text"]
    ELSE [status |-> "error", error |-> "Unknown tool"]

\* json.loads of the payload of a well-formed result line: the dict the
\* Worker dumped.
json_loads(line) ==
    IF "payload" \in DOMAIN line THEN line.payload
    ELSE IF line.success
    THEN [success |-> TRUE, error |-> line.error, output |-> line.output,
          variables |-> line.variables]
    ELSE [success |-> FALSE, error |-> line.error, output |-> line.output]

\* The "__RESULT__:" branch of the read loop: json.loads, a JSONDecodeError
\* is logged and final_result keeps its value.
parse_result(line, prev) == IF line.ok THEN line ELSE prev

\* A read loop that gives up on a malformed tool-call line.
ReadLineAborts ==
    /\ rpc = "read"
    /\ wout # <<>>
    /\ Head(wout).tag # "BYTES"
    /\ wout' = Tail(wout)
    /\ LET line == Head(wout) IN
       IF line.tag = "TOOL_CALL" /\ ~line.ok
       THEN /\ rpc' = "ret"
            /\ retval' = Failure("exception")
            /\ UNCHANGED <<win, final_result>>
       ELSE /\ IF line.tag = "TOOL_CALL"
               THEN /\ win' = Append(win, handle_tool_call(line))
                    /\ UNCHANGED final_result
               ELSE /\ final_result' = parse_result(line, final_result)
                    /\ UNCHANGED win
            /\ UNCHANGED <<rpc, retval>>
    /\ UNCHANGED <<context, variables, execs, tools, adds, lastAdd, code, processed, ctxArtifact,
                   codeArtifact, context_file, code_file, clock, wpc,
                   manifest, prog, outbuf, usage_globals, everBound, stdinClosed, wlines, exitCode, werr, proxied,
                   sessVars, traceVars>>

\* A _handle_tool_call whose outer except writes nothing: a return value
\* that cannot be serialized gets no response.
ReadLineNoFallback ==
    /\ rpc = "read"
    /\ wout # <<>>
    /\ Head(wout).tag # "BYTES"
    /\ wout' = Tail(wout)
    /\ LET line == Head(wout) IN
       IF line.tag = "TOOL_CALL"
       THEN /\ win' = IF handle_tool_call(line).status = "error"
                          /\ handle_tool_call(line).error = "IPC Protocol Error"
                       THEN win
                       ELSE Append(win, handle_tool_call(line))
            /\ UNCHANGED final_result
       ELSE /\ final_result' = parse_result(line, final_result)
            /\ UNCHANGED win
    /\ UNCHANGED <<rpc, context, variables, execs, tools, adds, lastAdd, code, processed, ctxArtifact,
                   codeArtifact, context_file, code_file, retval, clock, wpc,
                   manifest, prog, outbuf, usage_globals, everBound, stdinClosed, wlines, exitCode, werr, proxied,
                   sessVars, traceVars>>

\* One turn of the read loop with a line available that readline decodes.
ReadLine ==
    /\ rpc = "read"
    /\ wout # <<>>
    /\ Head(wout).tag # "BYTES"
    /\ wout' = Tail(wout)
    /\ LET line == Head(wout) IN
       IF line.tag = "TOOL_CALL"
       THEN /\ win' = Append(win, handle_tool_call(line))
            /\ UNCHANGED final_result
       ELSE /\ final_result' = parse_result(line, final_result)
            /\ UNCHANGED win
    /\ UNCHANGED <<rpc, context, variables, execs, tools, adds, lastAdd, code, processed, ctxArtifact,
                   codeArtifact, context_file, code_file, retval, clock, wpc,
                   manifest, prog, outbuf, usage_globals, everBound, stdinClosed, wlines, exitCode, werr, proxied,
                   sessVars, traceVars>>

\* What execute returns after communicate(): "if final_result:" is a test of
\* truth, so the parsed result line when it is neither None nor an empty
\* dict, or else the failure with exit code and stderr.
exit_result(fr, rc, stderr) ==
    IF fr # NoResult /\ json_loads(fr) # EmptyDict
    THEN json_loads(fr)
    ELSE ExitFailure(rc, stderr)

\* A return that does not wait for the Worker to exit.
ReadEOFEarly ==
    /\ rpc = "read"
    /\ wout = <<>>
    /\ wpc \in {"exec", "exited"}
    /\ Return(exit_result(final_result, exitCode, werr),
              ctxArtifact, context_file, codeArtifact, code_file)
    /\ UNCHANGED <<context, variables, execs, tools, adds, lastAdd, code, processed, final_result, clock,
                   workerVars, sessVars, traceVars>>

\* A failure result that leaves out the exit code and the stderr text.
ReadEOFBare ==
    /\ rpc = "read"
    /\ wout = <<>>
    /\ wpc = "exited"
    /\ Return(exit_result(final_result, NoExit, FALSE),
              ctxArtifact, context_file, codeArtifact, code_file)
    /\ UNCHANGED <<context, variables, execs, tools, adds, lastAdd, code, processed, final_result, clock,
                   workerVars, sessVars, traceVars>>

\* readline returns "" and the Worker has exited: break, communicate (which
\* waits for the exit and collects stderr), and return the result line (or
\* the failure) through the finally.
ReadEOF ==
    /\ rpc = "read"
    /\ wout = <<>>
    /\ wpc = "exited"
    /\ Return(exit_result(final_result, exitCode, werr),
              ctxArtifact, context_file, codeArtifact, code_file)
    /\ UNCHANGED <<context, variables, execs, tools, adds, lastAdd, code, processed, final_result, clock,
                   workerVars, sessVars, traceVars>>

\* readline raises on a line it cannot decode: "except Exception: break".
\* execute goes on to communicate(), which closes the Worker's stdin.
ReadRaises ==
    /\ rpc = "read"
    /\ wout # <<>>
    /\ Head(wout).tag = "BYTES"
    /\ wout' = Tail(wout)
    /\ rpc' = "communicate"
    /\ stdinClosed' = TRUE
    /\ UNCHANGED <<context, variables, execs, tools, adds, lastAdd, code,
                   processed, ctxArtifact, codeArtifact, context_file,
                   code_file, final_result, retval, clock, wpc, manifest,
                   prog, outbuf, usage_globals, everBound, win, wlines,
                   exitCode, werr, proxied, sessVars, traceVars>>

\* communicate() after a read fault: it reads the rest of the Worker's
\* output until the Worker has exited and drops it; decoding that rest
\* raises when it holds another undecodable line, which the generic handler
\* of execute turns into a failure.
Communicate ==
    /\ rpc = "communicate"
    /\ wpc = "exited"
    /\ wout' = <<>>
    /\ IF \E i \in 1..Len(wout) : wout[i].tag = "BYTES"
       THEN Return(Failure("codec error"), ctxArtifact, context_file,
                   codeArtifact, code_file)
       ELSE Return(exit_result(final_result, exitCode, werr),
                   ctxArtifact, context_file, codeArtifact, code_file)
    /\ UNCHANGED <<context, variables, execs, tools, adds, lastAdd, code,
                   processed, final_result, clock, wpc, manifest, prog,
                   outbuf, usage_globals, everBound, stdinClosed, win, wlines,
                   exitCode, werr, proxied, sessVars, traceVars>>

\* Time passes while execute is blocked in readline and the snippet loops.
\* Nothing in execute waits with a timeout (no call passes one), so the
\* "except subprocess.TimeoutExpired" handler is never entered.
Tick ==
    /\ rpc = "read"
    /\ wout = <<>>
    /\ wpc = "exec"
    /\ prog # <<>> /\ Head(prog) = "spin"
    /\ clock < MaxClock
    /\ clock' = clock + 1
    /\ UNCHANGED <<rpc, context, variables, execs, tools, adds, lastAdd, code, processed, ctxArtifact,
                   codeArtifact, context_file, code_file, final_result,
                   retval, workerVars, sessVars, traceVars>>

\* ---- worker.main
\* send_message: one line on stdout.
send_message(line) ==
    /\ wout' = Append(wout, line)
    /\ wlines' = Append(wlines, line)

\* main returns (or the interpreter exits) with the given exit status.
Exit(status) ==
    /\ wpc' = "exited"
    /\ exitCode' = status

\* Python objects in the exec namespace, with what str() gives for them.
ContextData == [type |-> "str", repr |-> "document"]
PrintSink == [type |-> "method", repr |-> "<bound method OutputBuffer.print>"]
Builtins == [type |-> "dict", repr |-> "{...builtins...}"]
Proxy(n) == [type |-> "function", repr |-> "<function proxy_func>", tool |-> n]
Function(n) == [type |-> "function", repr |-> "<function " \o n \o ">"]
IntOne == [type |-> "int", repr |-> "1"]
callable(v) == v.type \in {"function", "method"}
str(v) == v.repr

\* The namespace main sets up: context, print, __builtins__, and a proxy
\* for every name of --tools.
namespace(names) ==
    [n \in {"context", "print", "__builtins__"} \cup names |->
        CASE n = "context" -> ContextData
          [] n = "print" -> PrintSink
          [] n = "__builtins__" -> Builtins
          [] OTHER -> Proxy(n)]

\* The variables entry of result_data: str() of every value that is not
\* callable, under every name but the three that main put in.
snapshot_all(g) ==
    [k \in {n \in DOMAIN g : n \notin {"context", "print", "__builtins__"}}
        |-> str(g[k])]
snapshot(g) ==
    [k \in {n \in DOMAIN g : /\ n \notin {"context", "print", "__builtins__"}
                              /\ ~callable(g[n])}
        |-> str(g[k])]

\* A Worker that runs the snippet in the namespace the previous snippet left.
LoadContextKeepsGlobals(ok) ==
    /\ wpc = "loadctx"
    /\ IF ok
       THEN wpc' = "loadcode" /\ UNCHANGED <<wout, wlines, exitCode>>
       ELSE /\ send_message(ResultLine(FALSE, "Failed to load context", <<>>))
            /\ Exit(0)
    /\ UNCHANGED <<manifest, prog, outbuf, usage_globals, everBound,
                   stdinClosed, win, werr, proxied, replVars, sessVars,
                   traceVars>>

\* 1. Load context data; on a fault the failure result line and return.
\* 2. Setup execution namespace: a new usage_globals.
LoadContext(ok) ==
    /\ wpc = "loadctx"
    /\ IF ok
       THEN /\ wpc' = "loadcode"
            /\ usage_globals' = namespace(manifest)
            /\ UNCHANGED <<wout, wlines, exitCode>>
       ELSE /\ send_message(ResultLine(FALSE, "Failed to load context", <<>>))
            /\ Exit(0)
            /\ UNCHANGED usage_globals
    /\ UNCHANGED <<manifest, prog, outbuf, everBound, stdinClosed, win, werr,
                   proxied, replVars, sessVars, traceVars>>

\* 3. Load user code, then exec compiles it; a SyntaxError is caught by the
\* "except Exception" around exec.
LoadCode(ok) ==
    /\ wpc = "loadcode"
    /\ IF ~ok
       THEN /\ send_message(ResultLine(FALSE, "Failed to load code", <<>>))
            /\ Exit(0)
            /\ UNCHANGED prog
       ELSE IF ~SyntaxOK(processed, FALSE)
       THEN /\ send_message(ResultLine(FALSE, "SyntaxError", <<>>))
            /\ Exit(0)
            /\ UNCHANGED prog
       ELSE /\ prog' = Program(processed)
            /\ wpc' = "exec"
            /\ UNCHANGED <<wout, wlines, exitCode>>
    /\ UNCHANGED <<manifest, outbuf, usage_globals, everBound, stdinClosed, win, werr, proxied, replVars, sessVars,
                   traceVars>>

Running(stmt) == wpc = "exec" /\ prog # <<>> /\ Head(prog) = stmt

\* The text a print statement hands to OutputBuffer.print.
Printed(stmt) ==
    CASE stmt = "print" -> "a"
      [] stmt = "printU" -> "e-acute"
      [] stmt = "printM" -> "A-tilde copyright"

\* The snippet calls print: OutputBuffer.print appends the text.
SnippetPrint ==
    /\ Running("print") \/ Running("printU") \/ Running("printM")
    /\ outbuf' = Append(outbuf, Printed(Head(prog)))
    /\ prog' = Tail(prog)
    /\ UNCHANGED <<wpc, manifest, usage_globals, everBound, stdinClosed, wout,
                   win, wlines, exitCode, werr, proxied, replVars, sessVars,
                   traceVars>>

\* What a binding statement binds: x = 1, def f(): ..., context = 1.
Binding(stmt) ==
    CASE stmt = "bind" -> [name |-> "x", value |-> IntOne]
      [] stmt = "def" -> [name |-> "f", value |-> Function("f")]
      [] stmt = "shadow" -> [name |-> "context", value |-> IntOne]

\* The snippet binds a name: usage_globals[name] = value.
SnippetBind ==
    /\ Running("bind") \/ Running("def") \/ Running("shadow")
    /\ LET b == Binding(Head(prog)) IN
         /\ usage_globals' = (b.name :> b.value) @@ usage_globals
         /\ everBound' = everBound \cup {b.name}
    /\ prog' = Tail(prog)
    /\ UNCHANGED <<wpc, manifest, outbuf, stdinClosed, wout, win, wlines,
                   exitCode, werr, proxied, replVars, sessVars, traceVars>>

\* The snippet runs print(x): the value is printed when x is bound in
\* usage_globals, and the NameError is reported by "except Exception"
\* otherwise.
SnippetUse ==
    /\ Running("use")
    /\ IF "x" \in DOMAIN usage_globals
       THEN /\ outbuf' = Append(outbuf, str(usage_globals["x"]))
            /\ prog' = Tail(prog)
            /\ UNCHANGED <<wpc, wout, wlines, exitCode>>
       ELSE /\ send_message(ResultLine(FALSE, "NameError", outbuf))
            /\ Exit(0)
            /\ UNCHANGED <<prog, outbuf>>
    /\ UNCHANGED <<manifest, usage_globals, everBound, stdinClosed, win, werr,
                   proxied, replVars, sessVars, traceVars>>

\* The snippet calls the tool echo with one argument, bare ("call") or inside
\* try/except ("trycall"): proxy_func sends the call and waits, or the name
\* is unbound (no proxy) and the NameError is caught by the snippet's except
\* or at the top of main.  A proxy the snippet made itself ("callx") sends
\* its own name.
SnippetCall(arg) ==
    /\ Running("call") \/ Running("trycall") \/ Running("callx")
    /\ IF "echo" \in manifest \/ Head(prog) = "callx"
       THEN /\ send_message(ToolCallLine(IF Head(prog) = "callx" THEN "nosuch"
                                         ELSE "echo", arg))
            /\ wpc' = "blocked"
            /\ UNCHANGED <<prog, exitCode>>
       ELSE IF Head(prog) = "trycall"
       THEN /\ prog' = Tail(prog)
            /\ UNCHANGED <<wpc, wout, wlines, exitCode>>
       ELSE /\ send_message(ResultLine(FALSE, "NameError", outbuf))
            /\ Exit(0)
            /\ UNCHANGED prog
    /\ UNCHANGED <<manifest, outbuf, usage_globals, everBound, stdinClosed, win, werr, proxied, replVars, sessVars,
                   traceVars>>

\* proxy_func reads the next response line from stdin: returns the result, or
\* raises RuntimeError with the response's error text, which the snippet's
\* except catches ("trycall") or main's "except Exception" reports.
ProxyRead ==
    /\ wpc = "blocked"
    /\ win # <<>>
    /\ win' = Tail(win)
    /\ proxied' = Append(proxied,
           [arg |-> Last(SelectSeq(wlines, LAMBDA l : l.tag = "TOOL_CALL" /\ l.ok)).arg,
            got |-> Head(win)])
    /\ IF Head(win).status = "success" \/ Head(prog) = "trycall"
       THEN /\ wpc' = "exec"
            /\ prog' = Tail(prog)
            /\ UNCHANGED <<wout, wlines, exitCode>>
       ELSE /\ send_message(ResultLine(FALSE, Head(win).error, outbuf))
            /\ Exit(0)
            /\ UNCHANGED prog
    /\ UNCHANGED <<manifest, outbuf, usage_globals, everBound, stdinClosed, werr, replVars, sessVars, traceVars>>

\* What read_message yields at the end of the stream.
ConnectionClosed == [status |-> "eof"]

\* A proxy that keeps waiting on a closed stream.
ProxyEOFBlocks ==
    /\ wpc = "blocked"
    /\ win = <<>>
    /\ stdinClosed
    /\ UNCHANGED vars

\* read_message finds the stream closed with nothing left to read: readline
\* returns "" and it raises EOFError inside proxy_func, which the snippet's
\* except catches ("trycall") or main's "except Exception" reports.
ProxyEOF ==
    /\ wpc = "blocked"
    /\ win = <<>>
    /\ stdinClosed
    /\ proxied' = Append(proxied,
           [arg |-> Last(SelectSeq(wlines, LAMBDA l : l.tag = "TOOL_CALL" /\ l.ok)).arg,
            got |-> ConnectionClosed])
    /\ IF Head(prog) = "trycall"
       THEN /\ wpc' = "exec"
            /\ prog' = Tail(prog)
            /\ UNCHANGED <<wout, wlines, exitCode>>
       ELSE /\ send_message(ResultLine(FALSE, "EOFError", outbuf))
            /\ Exit(0)
            /\ UNCHANGED prog
    /\ UNCHANGED <<manifest, outbuf, usage_globals, everBound, stdinClosed, win,
                   werr, replVars, sessVars, traceVars>>

\* The snippet raises an Exception: "except Exception" sends the failure
\* result with the buffered output.
SnippetRaise ==
    /\ Running("raise")
    /\ send_message(ResultLine(FALSE, "exception", outbuf))
    /\ Exit(0)
    /\ UNCHANGED <<manifest, prog, outbuf, usage_globals, everBound, stdinClosed, win, werr, proxied, replVars,
                   sessVars, traceVars>>

\* The snippet calls exit() / sys.exit(n) / raises SystemExit, possibly after
\* writing to stderr: a BaseException, which "except Exception" does not
\* catch; the process ends with status n.
SnippetExit(n, diag) ==
    /\ Running("exit")
    /\ Exit(n)
    /\ werr' = (werr \/ diag)
    /\ UNCHANGED <<manifest, prog, outbuf, usage_globals, everBound, stdinClosed, wout, win, wlines, proxied,
                   replVars, sessVars, traceVars>>

\* The snippet loops forever.
SnippetSpin ==
    /\ Running("spin")
    /\ UNCHANGED vars

\* The snippet writes on the real stdout a line with a protocol tag and a
\* payload that is not JSON ("garble" a tool-call line, "badres" a result
\* line), a result line with the payload {} ("emptyres"), or a line of bytes
\* that are not UTF-8 ("badbytes").
SnippetWrite ==
    /\ \/ Running("garble") \/ Running("badres") \/ Running("badbytes")
       \/ Running("emptyres")
    /\ send_message(CASE Head(prog) = "garble" -> MalformedLine("TOOL_CALL")
                      [] Head(prog) = "badres" -> MalformedLine("RESULT")
                      [] Head(prog) = "emptyres" -> EmptyResultLine
                      [] OTHER -> MalformedLine("BYTES"))
    /\ prog' = Tail(prog)
    /\ UNCHANGED <<wpc, manifest, outbuf, usage_globals, everBound, stdinClosed, win, exitCode, werr, proxied,
                   replVars, sessVars, traceVars>>

\* exec returned: the success result line.
SnippetDone ==
    /\ wpc = "exec"
    /\ prog = <<>>
    /\ send_message(SuccessLine(outbuf, snapshot(usage_globals)))
    /\ Exit(0)
    /\ UNCHANGED <<manifest, prog, outbuf, usage_globals, everBound, stdinClosed, win, werr, proxied, replVars,
                   sessVars, traceVars>>

ReplIdle ==
    /\ rpc = "idle"
    /\ tools = [n \in ToolNames |-> Unset]
    /\ adds = 0
    /\ lastAdd = NoAdd
    /\ context = "document"
    /\ variables = <<>>
    /\ execs = 0
    /\ code = <<>>
    /\ processed = <<>>
    /\ ctxArtifact = FALSE
    /\ codeArtifact = FALSE
    /\ context_file = FALSE
    /\ code_file = FALSE
    /\ final_result = NoResult
    /\ retval = NoReturn
    /\ clock = 0
    /\ wpc = "none"
    /\ manifest = {}
    /\ prog = <<>>
    /\ outbuf = <<>>
    /\ usage_globals = <<>>
    /\ everBound = {}
    /\ stdinClosed = FALSE
    /\ wout = <<>>
    /\ win = <<>>
    /\ wlines = <<>>
    /\ exitCode = NoExit
    /\ werr = FALSE
    /\ proxied = <<>>

\* ------------------------------------------------------------ specification
SessionInit ==
    /\ pc = "accept"
    /\ connected = TRUE
    /\ connBroken = FALSE
    /\ request = None
    /\ received = NoRequest
    /\ queue = <<>>
    /\ result = None
    /\ error = None
    /\ prod = "none"
    /\ cons = "none"
    /\ sent = <<>>
    /\ errAttempts = 0
    /\ errText = None
    /\ enq = <<>>
    /\ closeCalls = 0
    /\ ready = <<>>
    /\ engine = "idle"
    /\ hooks = 0
    /\ budget = MaxHooks
    /\ engOpen = <<>>
    /\ nested = TRUE
    /\ workers = 0
    /\ streamEnd = NoEnd
    /\ step_id = 0
    /\ module_stack = <<>>
    /\ emitted = <<>>
    /\ openAt = <<>>
    /\ pushes = <<>>
    /\ pops = <<>>
    /\ loopClosed = FALSE
    /\ emitRaised = {}
    /\ step_data = NoStep

Init ==
    /\ SessionInit
    /\ ReplIdle

Next ==
    \/ Accept
    \/ \E q \in QueryVals, c \in QueryVals, en \in BOOLEAN : Receive(q, c, en)
    \/ ReceiveFault
    \/ ProduceStart
    \/ HookLmStart
    \/ HookLmEnd
    \/ HookToolStart
    \/ HookToolEnd
    \/ HookModuleStart
    \/ HookModuleEnd
    \/ ExecutePython
    \/ LlmQuery
    \/ \E pred \in BOOLEAN, f \in Faults \cup GroupFaults \cup {None} :
           EngineFinish(pred, f)
    \/ OnStep
    \/ ProduceFinish
    \/ ConsumeStep
    \/ ConsumeSentinel
    \/ CancelConsumer
    \/ PipelineExit
    \/ SendFinal
    \/ HandleError
    \/ Close
    \/ Disconnect

Spec == Init /\ [][Next]_vars

\* The producer side alone: the state of a session right after a valid
\* request was received (both tasks created), and the steps of the producer,
\* the engine and the loop's callbacks from there.
InitTrace ==
    /\ pc = "pipeline"
    /\ connected = TRUE
    /\ connBroken = FALSE
    /\ request = [query |-> "text", context |-> "text", enable_sub_llm |-> TRUE]
    /\ received = [got |-> TRUE, query |-> "text", context |-> "text"]
    /\ queue = <<>>
    /\ result = None
    /\ error = None
    /\ prod = "start"
    /\ cons = "run"
    /\ sent = <<>>
    /\ errAttempts = 0
    /\ errText = None
    /\ enq = <<>>
    /\ closeCalls = 0
    /\ ready = <<>>
    /\ engine = "idle"
    /\ hooks = 0
    /\ budget = MaxTraceHooks
    /\ engOpen = <<>>
    /\ nested = TRUE
    /\ workers = 0
    /\ streamEnd = NoEnd
    /\ step_id = 0
    /\ module_stack = <<>>
    /\ emitted = <<>>
    /\ openAt = <<>>
    /\ pushes = <<>>
    /\ pops = <<>>
    /\ loopClosed = FALSE
    /\ emitRaised = {}
    /\ step_data = NoStep
    /\ ReplIdle

NextTrace ==
    \/ ProduceStart
    \/ HookLmStart
    \/ HookLmEnd
    \/ HookToolStart
    \/ HookToolEnd
    \/ HookModuleStart
    \/ HookModuleEnd
    \/ ExecutePython
    \/ LlmQuery
    \/ \E pred \in BOOLEAN, f \in Faults \cup {None} : EngineFinish(pred, f)
    \/ OnStep
    \/ ProduceFinish

SpecTrace == InitTrace /\ [][NextTrace]_vars

\* The producer side of a session whose event loop may shut down under the
\* running engine.
InitShutdown ==
    /\ pc = "pipeline"
    /\ connected = TRUE
    /\ connBroken = FALSE
    /\ request = [query |-> "text", context |-> "text", enable_sub_llm |-> TRUE]
    /\ received = [got |-> TRUE, query |-> "text", context |-> "text"]
    /\ queue = <<>>
    /\ result = None
    /\ error = None
    /\ prod = "start"
    /\ cons = "run"
    /\ sent = <<>>
    /\ errAttempts = 0
    /\ errText = None
    /\ enq = <<>>
    /\ closeCalls = 0
    /\ ready = <<>>
    /\ engine = "idle"
    /\ hooks = 0
    /\ budget = MaxHooks
    /\ engOpen = <<>>
    /\ nested = TRUE
    /\ workers = 0
    /\ streamEnd = NoEnd
    /\ step_id = 0
    /\ module_stack = <<>>
    /\ emitted = <<>>
    /\ openAt = <<>>
    /\ pushes = <<>>
    /\ pops = <<>>
    /\ loopClosed = FALSE
    /\ emitRaised = {}
    /\ step_data = NoStep
    /\ ReplIdle

NextShutdown ==
    \/ NextTrace
    \/ LoopClose

SpecShutdown == InitShutdown /\ [][NextShutdown]_vars

\* The producer side with the hooks of the background context taken step by
\* step: the loop runs its callbacks between a hook's id allocation and its
\* hand-off.
NextContexts ==
    \/ ProduceStart
    \/ \E t \in HookTypes : HookBuild(t)
    \/ HookEmit
    \/ \E pred \in BOOLEAN, f \in Faults \cup {None} : StreamEnd(pred, f)
    \/ OnStep
    \/ ProduceFinish

SpecContexts == InitShutdown /\ [][NextContexts]_vars

\* One RLMREPL from its construction: add_tool calls, then one execute and
\* its Worker.
NextRepl ==
    \/ \E n \in ToolNames, f \in Callables : AddTool(n, f)
    \/ rpc = "idle" /\ \E c \in Codes : Execute(c)
    \/ ExecuteNoScript
    \/ \E o \in {"ok", "create_raises", "dump_raises"} : WriteContext(o)
    \/ Normalize
    \/ \E o \in {"ok", "create_raises", "write_raises"} : WriteCode(o)
    \/ \E o \in {"ok", "popen_raises"} : Launch(o)
    \/ ReadLine
    \/ ReadEOF
    \/ Tick
    \/ \E ok \in BOOLEAN : LoadContext(ok)
    \/ \E ok \in BOOLEAN : LoadCode(ok)
    \/ SnippetPrint
    \/ \E v \in ArgVals : SnippetCall(v)
    \/ ProxyRead
    \/ SnippetRaise
    \/ \E n \in ExitCodes, d \in BOOLEAN : SnippetExit(n, d)
    \/ SnippetSpin
    \/ SnippetDone

SpecRepl == Init /\ [][NextRepl]_vars

\* One execute call from the point where its Worker starts exec: both
\* artifacts written, the Worker launched, context and code loaded; the
\* snippet is one statement per line and echo is unregistered or registered.
\* The protocol runs leave out the endless loop and the non-ASCII prints.
ProtoStmts == Stmts \ {"spin", "printU", "printM", "bind", "use", "def",
                        "shadow", "badbytes", "callx", "emptyres"}
Progs == UNION {[1..n -> ProtoStmts] : n \in 0..MaxProg}
RECURSIVE Lines(_)
Lines(p) ==
    IF Len(p) <= 1 THEN p ELSE <<Head(p), "NL">> \o Lines(Tail(p))

ProtoStart(progs, funcs) ==
    /\ SessionInit
    /\ \E p \in progs, f \in funcs \cup {Unset} :
           /\ tools = [n \in ToolNames |-> IF n = "echo" THEN f ELSE Unset]
           /\ adds = (IF f = Unset THEN 0 ELSE 1)
           /\ lastAdd = (IF f = Unset THEN NoAdd
                          ELSE [name |-> "echo", func |-> f])
           /\ manifest = (IF f = Unset THEN {} ELSE {"echo"})
           /\ code = Lines(p)
           /\ processed = normalize(Lines(p)).code
           /\ prog = Program(normalize(Lines(p)).code)
    /\ rpc = "read"
    /\ context = "document"
    /\ variables = <<>>
    /\ execs = 0
    /\ ctxArtifact = TRUE
    /\ codeArtifact = TRUE
    /\ context_file = TRUE
    /\ code_file = TRUE
    /\ final_result = NoResult
    /\ retval = NoReturn
    /\ clock = 0
    /\ wpc = "exec"
    /\ outbuf = <<>>
    /\ usage_globals = namespace(manifest)
    /\ everBound = {}
    /\ stdinClosed = FALSE
    /\ wout = <<>>
    /\ win = <<>>
    /\ wlines = <<>>
    /\ exitCode = NoExit
    /\ werr = FALSE
    /\ proxied = <<>>

InitProto == ProtoStart(Progs, Callables)

NextProto ==
    \/ ReadLine
    \/ ReadEOF
    \/ SnippetPrint
    \/ \E v \in ArgVals : SnippetCall(v)
    \/ ProxyRead
    \/ SnippetRaise
    \/ \E n \in ExitCodes, d \in BOOLEAN : SnippetExit(n, d)
    \/ SnippetWrite
    \/ SnippetDone

SpecProto == InitProto /\ [][NextProto]_vars

\* The same, with snippets that also write undecodable lines, so that the
\* read loop of execute can fault.
FaultStmts == {"print", "call", "trycall", "raise", "badbytes"}
FaultProgs == UNION {[1..n -> FaultStmts] : n \in 0..MaxProg}
InitReadFault == ProtoStart(FaultProgs, Callables)

NextReadFault ==
    \/ ReadLine
    \/ ReadRaises
    \/ ReadEOF
    \/ Communicate
    \/ SnippetPrint
    \/ \E v \in ArgVals : SnippetCall(v)
    \/ ProxyRead
    \/ ProxyEOF
    \/ SnippetRaise
    \/ SnippetWrite
    \/ SnippetDone

SpecReadFault == InitReadFault /\ [][NextReadFault]_vars
\* The Worker and the Coordinator are processes that keep running: a step
\* that can be taken is taken.
SpecReadFaultFair == SpecReadFault /\ WF_vars(NextReadFault)

\* Successive execute calls on one RLMREPL, each with a snippet of
\* assignments and reads of one name, one statement per line, with add_tool
\* calls before and between them.
BindProgs == UNION {[1..n -> {"bind", "use"}] : n \in 0..MaxBinds}
SnippetCodes == {Lines(p) : p \in BindProgs}

NextSnippets ==
    \/ \E n \in ToolNames, f \in Callables : AddTool(n, f)
    \/ \E c \in SnippetCodes : Execute(c)
    \/ ExecuteNoScript
    \/ ExecuteReturned
    \/ \E o \in {"ok", "create_raises", "dump_raises"} : WriteContext(o)
    \/ Normalize
    \/ \E o \in {"ok", "create_raises", "write_raises"} : WriteCode(o)
    \/ \E o \in {"ok", "popen_raises"} : Launch(o)
    \/ ReadLine
    \/ ReadEOF
    \/ \E ok \in BOOLEAN : LoadContext(ok)
    \/ \E ok \in BOOLEAN : LoadCode(ok)
    \/ SnippetBind
    \/ SnippetUse
    \/ SnippetDone

SpecSnippets == Init /\ [][NextSnippets]_vars

\* One execute call from the start of exec whose snippet binds names (a
\* value, a function, the name context), calls echo or raises.
NameStmts == {"bind", "def", "shadow", "call", "raise"}
NameProgs == UNION {[1..n -> NameStmts] : n \in 0..MaxProg}
InitNames == ProtoStart(NameProgs, Callables)

NextNames ==
    \/ ReadLine
    \/ ReadEOF
    \/ SnippetBind
    \/ \E v \in ArgVals : SnippetCall(v)
    \/ ProxyRead
    \/ SnippetRaise
    \/ SnippetDone

SpecNames == InitNames /\ [][NextNames]_vars

\* One execute call from the start of exec whose snippet calls tools: echo
\* (unregistered, or registered with a callable that returns, raises or
\* returns a value that cannot be serialized), a name that is not
\* registered, and writes of undecodable lines in between.
CallStmts == {"call", "trycall", "callx", "badbytes"}
CallProgs == UNION {[1..n -> CallStmts] : n \in 0..MaxProg}
InitCalls == ProtoStart(CallProgs, HostCallables)

NextCalls ==
    \/ ReadLine
    \/ ReadRaises
    \/ ReadEOF
    \/ Communicate
    \/ \E v \in ArgVals : SnippetCall(v)
    \/ ProxyRead
    \/ ProxyEOF
    \/ SnippetWrite
    \/ SnippetDone

SpecCalls == InitCalls /\ [][NextCalls]_vars
\* Both processes keep running and every host callable returns.
SpecCallsFair == SpecCalls /\ WF_vars(NextCalls)

\* One execute call from the start of exec whose snippet prints, raises,
\* exits, and writes result lines of its own on stdout: malformed ones and
\* ones whose payload is {}.
ResultStmts == {"print", "badres", "emptyres", "raise", "exit"}
ResultProgs == UNION {[1..n -> ResultStmts] : n \in 0..MaxProg}
InitResults == ProtoStart(ResultProgs, Callables)

NextResults ==
    \/ ReadLine
    \/ ReadEOF
    \/ SnippetPrint
    \/ SnippetRaise
    \/ \E n \in ExitCodes, d \in BOOLEAN : SnippetExit(n, d)
    \/ SnippetWrite
    \/ SnippetDone

SpecResults == InitResults /\ [][NextResults]_vars

\* ================================================================= claims
SessionOver == pc = "done" /\ ready = <<>>
Terminals(s) == CountK(s, "final") + CountK(s, "error")
\* The request that arrived has a missing or empty query or context.
InvalidRequest ==
    /\ received.got
    /\ \/ received.query \in {"absent", ""}
       \/ received.context \in {"absent", ""}
Range(s) == {s[i] : i \in 1..Len(s)}

\* C1: in a session that ran to its end with the client connected throughout
\* and no producer fault, the step messages sent are exactly the StepRecords
\* put on the queue, in the same order, none dropped.
C1_SentEqualsEnqueued ==
    (SessionOver /\ ~connBroken /\ prod = "done")
        => StepsOf(sent) = StepsOf(enq)

\* C2 as stated: a finished session (whose request arrived) has sent step
\* messages and then exactly one terminal message (final or error), and
\* close was called once.
C2_ExactlyOneTerminal ==
    (pc = "done" /\ received.got) =>
        /\ Terminals(sent) = 1
        /\ Last(sent).k \in {"final", "error"}
        /\ closeCalls = 1

\* C2 amended: step messages come first and at most one terminal message
\* (final or error, never both) follows them as the last message; a finished
\* session whose client stayed connected until close has exactly one; close
\* is called once, after the terminal message.
C2_TerminalThenClose ==
    /\ Terminals(sent) <= 1
    /\ \A i \in 1..Len(sent) : sent[i].k # "step" => i = Len(sent)
    /\ closeCalls = (IF pc = "done" THEN 1 ELSE 0)
    /\ (pc = "done" /\ ~connBroken) => Terminals(sent) = 1

\* C2 witness: finished sessions with steps then a final message, and with an
\* error message, the client connected throughout.
C2_Witness ==
    /\ pc = "done"
    /\ ~connBroken
    /\ Len(sent) >= 3
    /\ Last(sent).k = "final"
    /\ sent[1].k = "step"

\* C3: once the sentinel is on the queue nothing is put after it, and it is
\* put exactly once in a session whose producer has finished.
C3_SentinelLast ==
    /\ \A i \in 1..Len(enq) : enq[i].k = "done" => i = Len(enq)
    /\ prod \in {"done", "failed"} => CountK(enq, "done") = 1

\* C10 as stated: a finished session whose request was invalid has sent
\* exactly one error message and nothing else.
C10_InvalidOneError ==
    (InvalidRequest /\ pc = "done") => sent = <<[k |-> "error"]>>

\* C10 amended: a session whose request has a missing or empty query or
\* context never starts the producer, the consumer, the engine or a Worker,
\* emits and sends no step and no final message, sends at most one error
\* message, and when it has finished close was called once and, if the
\* client stayed connected until close, exactly one error message was sent.
C10_InvalidRequest ==
    InvalidRequest =>
        /\ prod = "none" /\ cons = "none" /\ engine = "idle"
        /\ workers = 0 /\ step_id = 0 /\ enq = <<>>
        /\ CountK(sent, "step") = 0 /\ CountK(sent, "final") = 0
        /\ CountK(sent, "error") <= 1
        /\ pc # "pipeline" /\ pc # "final"
        /\ pc = "done" => closeCalls = 1
        /\ (pc = "done" /\ ~connBroken) => sent = <<[k |-> "error"]>>

\* C10 witness: a finished session whose request had a query and no context.
C10_Witness ==
    /\ pc = "done"
    /\ received.got /\ received.query = "text" /\ received.context = "absent"
    /\ sent = <<[k |-> "error"]>>

\* C7: the ids of the emitted records start at 1 and strictly increase in
\* emission order (hence are unique), whoever emitted them.
C7_IdsIncrease ==
    /\ emitted # <<>> => emitted[1].id = 1
    /\ \A i \in 1..Len(emitted) : \A j \in 1..Len(emitted) :
           i < j => emitted[i].id < emitted[j].id

\* C7 witness: a run that emitted records from RLM (thinking, code_execution,
\* complete) and from the hooks.
C7_Witness ==
    /\ Len(emitted) >= 4
    /\ \E i \in 1..Len(emitted) : emitted[i].type = "code_execution"
    /\ \E i \in 1..Len(emitted) : emitted[i].type = "tool_call_end"
    /\ Last(emitted).type = "complete"

\* C8: every record's parent_id is absent or is an id on the scope stack
\* when the record is emitted; then it is smaller than the record's id and
\* is the id of an earlier scope-start record.
C8_ParentOpen ==
    \A i \in 1..Len(emitted) :
        LET r == emitted[i] IN
        r.parent_id # NoId =>
            /\ r.parent_id \in Range(openAt[i])
            /\ r.parent_id < r.id
            /\ \E j \in 1..(i - 1) :
                   /\ emitted[j].id = r.parent_id
                   /\ emitted[j].type \in {"tool_call_start", "module_start"}

\* C8 witness: a scope-end record emitted under an enclosing open scope.
C8_Witness ==
    \E i \in 1..Len(emitted) :
        /\ emitted[i].type \in {"tool_call_end", "module_end"}
        /\ emitted[i].parent_id # NoId

\* The engine's run ended with every end hook matching the scope the engine
\* had open and no scope left open.
NestedRunOver == engine = "finished" /\ nested /\ engOpen = <<>>
StartIds ==
    {emitted[i].id : i \in {j \in 1..Len(emitted) :
        emitted[j].type \in {"tool_call_start", "module_start"}}}
Occurrences(s, x) == Cardinality({i \in 1..Len(s) : s[i] = x})

\* C9: after a properly nested run that completed, every scope-start id was
\* pushed exactly once and popped exactly once, and the stack is empty.
C9_StackBalanced ==
    NestedRunOver =>
        /\ module_stack = <<>>
        /\ \A x \in StartIds : Occurrences(pushes, x) = 1 /\ Occurrences(pops, x) = 1
        /\ Range(pushes) = StartIds
        /\ Len(pops) = Len(pushes)

\* C9 witness: a completed, properly nested run with a scope inside a scope.
C9_Witness ==
    /\ NestedRunOver
    /\ Len(pushes) >= 2
    /\ \E i \in 1..Len(emitted) :
           /\ emitted[i].type \in {"tool_call_start", "module_start"}
           /\ emitted[i].parent_id # NoId

CountTag(s, t) == Cardinality({i \in 1..Len(s) : s[i].tag = t})

\* C4: when the snippet never terminates, once the clock is past the timeout
\* by the margin (MaxClock), execute has killed the Worker and returned the
\* timed-out failure.
C4_TimeoutReturns ==
    clock >= MaxClock =>
        /\ rpc = "ret"
        /\ wpc = "exited"
        /\ ~retval.success
        /\ retval.error = "timed out"

\* C5: after execute has returned, neither the context artifact nor the code
\* artifact exists.
C5_ArtifactsDeleted ==
    rpc = "ret" => ~ctxArtifact /\ ~codeArtifact

\* C6: a Worker that has exited wrote exactly one result line, and it is the
\* last line it wrote.
C6_OneResultLine ==
    wpc = "exited" =>
        /\ CountTag(wlines, "RESULT") = 1
        /\ Last(wlines).tag = "RESULT"

\* ---------------------------------------------------- faults of a session
\* The engine's stream raised a KeyError.
KeyErrorRun == streamEnd.fault \in {"KeyError", "KeyErrorHard"}
\* The engine's stream raised a fault that is not a KeyError.
OtherFaultRun == streamEnd.fault \in (Faults \ {"KeyError", "KeyErrorHard"})
Fallbacks == {"fallback_aforward", "fallback_produce"}

\* C11: a finished session whose reasoning run raised a fault other than a
\* KeyError, with the client connected throughout, has sent exactly one error
\* message and no final message, and close was called once.
C11_FatalFaultOneError ==
    (pc = "done" /\ ~connBroken /\ OtherFaultRun) =>
        /\ CountK(sent, "error") = 1
        /\ CountK(sent, "final") = 0
        /\ closeCalls = 1

\* C12 as stated: a finished session whose engine raised a KeyError has its
\* result slot set to a fallback answer, and has sent exactly one final
\* message and no error message.
C12_KeyErrorFinal ==
    (pc = "done" /\ KeyErrorRun) =>
        /\ result \in Fallbacks
        /\ CountK(sent, "final") = 1
        /\ CountK(sent, "error") = 0

\* C12 amended: when the engine's stream raises a KeyError the producer does
\* not fail and the error slot stays empty; the result slot is set to the
\* prediction already streamed, if aforward recovers and there is one, and to
\* a fallback answer otherwise; no error message is ever sent, at most one
\* final message is sent and it carries the result slot; a finished session
\* whose client stayed connected has sent exactly one, as its last message.
C12_KeyErrorRecovers ==
    KeyErrorRun =>
        /\ prod # "failed"
        /\ error = None
        /\ prod = "done" =>
               result = (IF streamEnd.fault = "KeyErrorHard" THEN "fallback_produce"
                         ELSE IF streamEnd.pred THEN "answer"
                         ELSE "fallback_aforward")
        /\ CountK(sent, "error") = 0
        /\ CountK(sent, "final") <= 1
        /\ \A i \in 1..Len(sent) : sent[i].k = "final" => sent[i].answer = result
        /\ (pc = "done" /\ ~connBroken) =>
               CountK(sent, "final") = 1 /\ Last(sent).k = "final"

\* C12 witness: a finished session whose engine raised a KeyError before any
\* prediction and whose last message is the final with the fallback answer.
C12_Witness ==
    /\ pc = "done"
    /\ streamEnd = [pred |-> FALSE, fault |-> "KeyError"]
    /\ sent # <<>>
    /\ Last(sent) = [k |-> "final", answer |-> "fallback_aforward"]

\* C13: close is called exactly once on every path of handle, which then
\* returns (also when the connection was already broken), and after close
\* nothing more is sent and close is not called again.
C13_CloseOnce ==
    /\ [](/\ pc \in {"accept", "receive", "pipeline", "final", "error", "close", "done"}
          /\ closeCalls = (IF pc = "done" THEN 1 ELSE 0))
    /\ [][closeCalls >= 1 => (sent' = sent /\ closeCalls' = closeCalls)]_vars

\* C13 witness: handle returned after close was called on a connection that
\* had already broken, in a session that had sent messages.
C13_Witness ==
    /\ pc = "done"
    /\ connBroken
    /\ closeCalls = 1
    /\ sent # <<>>

\* C14 as stated: handle returns after close with either a final message sent
\* and no error attempted, or no final message and a single attempted error
\* message.
C14_SingleAttempt ==
    pc = "done" =>
        /\ closeCalls = 1
        /\ \/ CountK(sent, "final") = 1 /\ errAttempts = 0
           \/ CountK(sent, "final") = 0 /\ errAttempts = 1

\* C14 amended: no fault leaves handle; handle returns after close with
\* either a final message carrying an answer as the last message and no error
\* attempted, or no final message and one or two attempted error messages of
\* which at most one is sent; two attempts happen only when the send of the
\* validation error itself faulted on a broken connection.
C14_NoFaultEscapes ==
    /\ pc # "raised"
    /\ CountK(sent, "error") <= 1
    /\ errAttempts <= 2
    /\ errAttempts = 2 => (InvalidRequest /\ connBroken /\ sent = <<>>)
    /\ pc = "done" =>
           /\ closeCalls = 1
           /\ \/ /\ CountK(sent, "final") = 1
                 /\ errAttempts = 0
                 /\ Last(sent).k = "final"
                 /\ Last(sent).answer \in Fallbacks \cup {"answer", "no_prediction"}
              \/ /\ CountK(sent, "final") = 0
                 /\ errAttempts \in {1, 2}

\* C14 witness: handle returned after the send of the final message faulted
\* and the error handler's own send faulted too.
C14_Witness ==
    /\ pc = "done"
    /\ prod = "done"
    /\ connBroken
    /\ errAttempts = 1
    /\ CountK(sent, "final") = 0

\* C20: no step emission raises to its caller, whether or not the
\* destination loop has shut down.
C20_EmitNeverRaises == emitRaised = {}

\* ------------------------------------------------- the line protocol
IsGoodResult(l) == l.tag = "RESULT" /\ l.ok
GoodResults == SelectSeq(wlines, IsGoodResult)
HasMalformed(tag) == \E i \in 1..Len(wlines) : wlines[i] = MalformedLine(tag)
Payload(l) == json_loads(l)

\* C15: a malformed tool-call line does not end execute: when execute has
\* returned after one, every line the Worker wrote has been read, and if a
\* well-formed result line was among them execute returned its payload.
C15_MalformedCallSkipped ==
    (rpc = "ret" /\ HasMalformed("TOOL_CALL")) =>
        /\ wout = <<>>
        /\ wpc = "exited"
        /\ GoodResults # <<>> => retval = Payload(Last(GoodResults))

\* C15 witness: execute returned the success result of a snippet that had
\* written a malformed tool-call line and then printed.
C15_Witness ==
    /\ rpc = "ret"
    /\ HasMalformed("TOOL_CALL")
    /\ retval.success
    /\ retval.output # <<>>

\* C16: when the registered tool raises, every proxy call raises a fault that
\* carries the tool's error text (it read a status:error response with that
\* text).
C16_ToolFaultInSnippet ==
    tools["echo"] = "raises" =>
        \A i \in 1..Len(proxied) :
            proxied[i].got = [status |-> "error", error |-> "tool error text"]

\* C17: when the registered tool returns normally, every proxy call returns
\* the value the host callable returned for the arguments of that call.
C17_ProxyReturnsHostValue ==
    tools["echo"] = "returns" =>
        \A i \in 1..Len(proxied) :
            proxied[i].got =
                [status |-> "success", result |-> json_roundtrip(proxied[i].arg)]

\* C18: when execute returns after the Worker exited without a well-formed
\* result line (none, or only malformed ones), it returns a failure that
\* holds the Worker's exit code and its stderr.
C18_ExitWithoutResult ==
    (rpc = "ret" /\ wpc = "exited" /\ GoodResults = <<>>) =>
        /\ ~retval.success
        /\ retval = ExitFailure(exitCode, werr)
        /\ exitCode \in ExitCodes

\* C18 witness: the Worker wrote a malformed result line, then diagnostic
\* text, and exited with status 3.
C18_Witness ==
    /\ rpc = "ret"
    /\ HasMalformed("RESULT")
    /\ retval = ExitFailure(3, TRUE)

EscapedPrints(c) ==
    /\ Count(c, "ENL") > 0
    /\ \A i \in 1..Len(c) : c[i] \in {"print", "printU", "ENL"}
    /\ \A i \in 1..(Len(c) - 1) : ~(IsStmt(c[i]) /\ IsStmt(c[i + 1]))
\* What the statements of c print when run in order as written.
RECURSIVE OutputOf(_)
OutputOf(c) ==
    IF c = <<>> THEN <<>>
    ELSE IF IsStmt(Head(c)) THEN <<Printed(Head(c))>> \o OutputOf(Tail(c))
    ELSE OutputOf(Tail(c))

\* C21: when execute returns a success for code made of print statements
\* separated by escaped line breaks (and no real line break), the output is
\* that of the statements as written, in order.
C21_EscapedRunsInOrder ==
    (rpc = "ret" /\ retval.success /\ EscapedPrints(code)) =>
        retval.output = OutputOf(code)

\* C21, ASCII case: for escaped code whose prints are all ASCII, a success
\* result carries the output of the statements in order.
C21_AsciiRunsInOrder ==
    (rpc = "ret" /\ retval.success /\ EscapedPrints(code)
        /\ Count(code, "printU") = 0) =>
        retval.output = OutputOf(code)

\* C21 witness: print('a')\nprint('a') on one line ran as two statements.
C21_Witness ==
    /\ rpc = "ret"
    /\ code = <<"print", "ENL", "print">>
    /\ retval.success
    /\ retval.output = <<"a", "a">>

\* What a proxy call with argument arg gets back when the host callable
\* invoked for it is func.
AnswerOf(func, arg) ==
    IF func = "returns"
    THEN [status |-> "success", result |-> json_roundtrip(arg)]
    ELSE [status |-> "error", error |-> "tool error text"]

\* C22: after any sequence of add_tool calls the registry holds, under the
\* name of the most recent call, the callable of that call; a registration
\* changes only in an add_tool call for its own name; and every tool call
\* naming the most recently registered tool is answered by that callable.
C22_LastRegistrationWins ==
    /\ [](adds > 0 => tools[lastAdd.name] = lastAdd.func)
    /\ [][\A n \in ToolNames :
             tools'[n] # tools[n] => (adds' = adds + 1 /\ lastAdd'.name = n)]_vars
    /\ [](lastAdd.name = "echo" =>
             \A i \in 1..Len(proxied) :
                 proxied[i].got = AnswerOf(lastAdd.func, proxied[i].arg))

\* C22 witness: echo was registered twice and nothing else, and a tool call
\* naming it was answered by the second callable.
C22_Witness ==
    /\ adds = 2
    /\ lastAdd = [name |-> "echo", func |-> "returns"]
    /\ tools["llm_query"] = Unset
    /\ proxied # <<>>
    /\ proxied[1].got.status = "success"

\* The statements of the current snippet that its Worker has run so far.
Ran == SubSeq(Program(processed), 1, Len(Program(processed)) - Len(prog))

\* C23: while a Worker runs a snippet, the name x is bound in its namespace
\* exactly when a statement of this snippet has bound it, whatever earlier
\* snippets bound; a snippet that reads x before binding it does not
\* succeed; and no step of execute or of the Worker changes the
\* Coordinator's context, variables map or tool registry (only add_tool
\* changes the registry).
C23_FreshNamespace ==
    /\ [](wpc = "exec" => (("x" \in DOMAIN usage_globals) <=> ("bind" \in Range(Ran))))
    /\ []((rpc = "ret" /\ Program(code) # <<>> /\ Head(Program(code)) = "use")
             => ~retval.success)
    /\ [][context' = context /\ variables' = variables
             /\ (adds' = adds => tools' = tools)]_vars

\* C23 witness: a second execute call returned a NameError failure for a
\* snippet that reads x, after an earlier snippet had bound x, with a tool
\* registered.
C23_Witness ==
    /\ execs = 1
    /\ rpc = "ret"
    /\ code = <<"use">>
    /\ "x" \in everBound
    /\ retval.error = "NameError"
    /\ tools["echo"] # Unset

\* C24: a terminal message (final or error) is in the sent messages only
\* when neither the producer nor the consumer is still running, and once a
\* terminal message has been sent no step message is sent.
C24_TerminalAfterPipeline ==
    /\ [](Terminals(sent) > 0 =>
             (prod \notin {"start", "streaming"} /\ cons # "run"))
    /\ [][Terminals(sent) > 0 => StepsOf(sent') = StepsOf(sent)]_vars

\* C24 witness: a producer fault cancelled the consumer, and the error
\* message followed the steps already sent.
C24_Witness ==
    /\ prod = "failed"
    /\ cons = "cancelled"
    /\ Len(sent) >= 2
    /\ Last(sent).k = "error"
    /\ sent[1].k = "step"

\* The number of items the consumer has taken from the queue.
Dequeued == Len(enq) - Len(queue)

\* C25: a step whose send faults is dropped and nothing else happens: the
\* consumer ends only by taking the sentinel, after taking every step put
\* before it, also when sends fault; the producer fails only by a fault of
\* its own reasoning run; and a pipeline whose producer did not fail is
\* left for the final-result step.
C25_SendFaultPerStep ==
    /\ [](cons = "done" =>
             /\ Dequeued >= 1
             /\ enq[Dequeued].k = "done"
             /\ \A i \in 1..(Dequeued - 1) : enq[i].k = "step")
    /\ [](prod = "failed" =>
             (streamEnd.fault # None
                 /\ ~is_parsing_error(actual_error(streamEnd.fault))))
    /\ [][(pc = "pipeline" /\ pc' # "pipeline" /\ prod # "failed")
             => pc' = "final"]_vars

\* C25 witness: the client went away after the first of two steps was sent;
\* the consumer still took the second step and the sentinel, and the session
\* is at the final-result step.
C25_Witness ==
    /\ connBroken
    /\ pc = "final"
    /\ prod = "done"
    /\ cons = "done"
    /\ Len(enq) >= 3
    /\ enq[1].k = "step" /\ enq[2].k = "step" /\ enq[3].k = "done"
    /\ sent = <<enq[1]>>

IsStart(r) == r.type \in {"tool_call_start", "module_start"}
IsEnd(r) == r.type \in {"tool_call_end", "module_end"}
StartOf(type) == IF type = "tool_call_end" THEN "tool_call_start" ELSE "module_start"

\* C26: while the hooks have been properly nested, every scope-end record
\* has an id larger than every earlier id, carries in its metadata the id
\* of the start record of its own kind that opened the innermost scope
\* still open (every scope opened after it has been closed, and no other
\* end record carries that id), and has the parent_id of that start record.
C26_EndMatchesStart ==
    nested =>
        \A i \in 1..Len(emitted) :
            IsEnd(emitted[i]) =>
                /\ \A k \in 1..(i - 1) : emitted[k].id < emitted[i].id
                /\ \E j \in 1..(i - 1) :
                       /\ emitted[j].id = emitted[i].ref
                       /\ emitted[j].type = StartOf(emitted[i].type)
                       /\ emitted[j].parent_id = emitted[i].parent_id
                       /\ \A k \in (j + 1)..(i - 1) :
                              /\ emitted[k].ref # emitted[i].ref
                              /\ IsStart(emitted[k]) =>
                                     \E l \in (k + 1)..(i - 1) :
                                         emitted[l].ref = emitted[k].id

\* C26 witness: a tool scope inside a module scope, both closed: the tool
\* end record has the module's id as parent and the tool's id in metadata.
C26_Witness ==
    /\ nested
    /\ \E i \in 1..Len(emitted), j \in 1..Len(emitted) :
           /\ i < j
           /\ emitted[i].type = "tool_call_end"
           /\ emitted[i].parent_id # NoId
           /\ emitted[j].type = "module_end"
           /\ emitted[j].ref = emitted[i].parent_id

LeafTypes == {"lm_call_start", "lm_call_end", "code_execution", "sub_llm_call"}
\* The id on top of a scope stack, or none.
TopOf(stack) == IF stack = <<>> THEN NoId ELSE stack[Len(stack)]

\* C27: a step that emits a leaf record allocates one id for it, gives it
\* the current stack top as parent_id and leaves the scope stack as it was;
\* a step that emits a scope-start record gives it the stack top from before
\* the step as parent_id and pushes the record's own id.
C27_LeafAndStartParents ==
    [][Len(emitted') = Len(emitted) + 1 =>
         LET r == Last(emitted') IN
         /\ r.type \in LeafTypes =>
                /\ step_id' = step_id + 1
                /\ r.id = step_id'
                /\ r.parent_id = TopOf(module_stack)
                /\ module_stack' = module_stack
         /\ IsStart(r) =>
                /\ step_id' = step_id + 1
                /\ r.id = step_id'
                /\ r.parent_id = TopOf(module_stack)
                /\ module_stack' = Append(module_stack, r.id)]_vars

\* C27 witness: a code_execution record emitted inside a tool scope that was
\* opened inside a module scope, the stack still holding both.
C27_Witness ==
    /\ Len(module_stack) = 2
    /\ \E i \in 1..Len(emitted) :
           /\ emitted[i].type = "code_execution"
           /\ emitted[i].parent_id = module_stack[2]
    /\ \E i \in 1..Len(emitted) :
           /\ emitted[i].type = "tool_call_start"
           /\ emitted[i].id = module_stack[2]
           /\ emitted[i].parent_id = module_stack[1]

\* The Worker has exited at a raise statement reached after at least one
\* print.
RaisedAfterPrint ==
    /\ wpc = "exited"
    /\ prog # <<>>
    /\ Head(prog) = "raise"
    /\ outbuf # <<>>

\* C28: when execute has returned for a snippet that raised after printing,
\* the Worker's last line is a failure result line whose output is
\* everything printed, and execute returned the payload of that line.
C28_RaiseKeepsOutput ==
    (rpc = "ret" /\ RaisedAfterPrint) =>
        /\ Last(wlines) = ResultLine(FALSE, "exception", outbuf)
        /\ retval = Payload(Last(wlines))

\* C28, Worker side and decodable output: the Worker's last line is always
\* that failure result line, and execute returned its payload when every
\* line the Worker wrote could be decoded.
C28_DecodableKeepsOutput ==
    (rpc = "ret" /\ RaisedAfterPrint) =>
        /\ Last(wlines) = ResultLine(FALSE, "exception", outbuf)
        /\ ~HasMalformed("BYTES") => retval = Payload(Last(wlines))

\* C28 witness: print, then raise: execute returned the failure with the
\* printed text.
C28_Witness ==
    /\ rpc = "ret"
    /\ RaisedAfterPrint
    /\ retval = [success |-> FALSE, error |-> "exception", output |-> <<"a">>]

\* A tool proxy waits for a response on a stream that the Coordinator side
\* has closed without writing one.
BlockedOnClosed == wpc = "blocked" /\ stdinClosed /\ win = <<>>

\* C29: a proxy call that waits on a closed, empty stream does not wait for
\* ever, and the step that ends the wait returns no value: the call gets the
\* connection-closed fault, which the snippet's own except catches and the
\* snippet goes on, or which ends the snippet with the failure result line
\* for EOFError.
C29_ClosedStreamRaises ==
    /\ BlockedOnClosed ~> (wpc # "blocked")
    /\ [][(BlockedOnClosed /\ wpc' # "blocked") =>
             /\ Last(proxied').got = ConnectionClosed
             /\ Head(prog) = "trycall" => (wpc' = "exec" /\ prog' = Tail(prog))
             /\ Head(prog) = "call" =>
                    /\ wpc' = "exited"
                    /\ Last(wlines') = ResultLine(FALSE, "EOFError", outbuf)]_vars

\* C29 witness: execute returned after its read loop had faulted, its
\* Worker's proxy call got the connection-closed fault, and the Worker ended
\* with the EOFError failure line.
C29_Witness ==
    /\ rpc = "ret"
    /\ proxied # <<>>
    /\ Last(proxied).got = ConnectionClosed
    /\ Last(wlines) = ResultLine(FALSE, "EOFError", <<>>)

\* handle has dealt with a failed pipeline: _handle_error has run.
PipelineFailed == prod = "failed" /\ pc \in {"close", "done"}

\* C30: after a failed pipeline, the error message's text is that of the
\* most specific fault the reasoning run raised, never that of an aggregate.
C30_ErrorTextSpecific ==
    PipelineFailed =>
        /\ errText = actual_error(error)
        /\ errText \notin GroupFaults

\* C30, plain faults: when the reasoning run raised a fault that is not an
\* aggregate, the error message's text is that fault's.
C30_PlainFaultText ==
    (PipelineFailed /\ error \notin GroupFaults) =>
        /\ errText = error
        /\ errText = streamEnd.fault

\* C30 witness: the run raised a plain fault, the error message with its
\* text was sent, and the connection was closed.
C30_Witness ==
    /\ pc = "done"
    /\ prod = "failed"
    /\ error = "Other"
    /\ errText = "Other"
    /\ Last(sent) = [k |-> "error"]

\* ---- C31
\* The names main itself puts in the namespace besides the tool proxies.
Reserved == {"context", "print", "__builtins__"}
\* execute returned the result of a successful run.
Succeeded == rpc = "ret" /\ retval.success
\* The name is bound to the tool proxy main injected for it.
IsToolProxy(n) == n \in manifest /\ usage_globals[n] = Proxy(n)

\* C31 (as stated): on successful execution the variables map holds the
\* stringified value of every name bound in the namespace except context,
\* the print sink and the tool proxies, and holds none of those three.
C31_EveryNameButThree ==
    Succeeded =>
        /\ \A n \in DOMAIN usage_globals :
               (n \notin Reserved /\ ~IsToolProxy(n)) =>
                   /\ n \in DOMAIN retval.variables
                   /\ retval.variables[n] = str(usage_globals[n])
        /\ \A n \in DOMAIN retval.variables :
               n \notin {"context", "print"} /\ ~IsToolProxy(n)

\* C31 (amended): on successful execution the variables map holds exactly the
\* names of the namespace that are bound to a value that is not callable,
\* other than context, print and __builtins__, each with the stringified
\* value; it holds no tool proxy and no function the snippet defined.
C31_NonCallablesSnapshot ==
    Succeeded =>
        /\ \A n \in DOMAIN usage_globals :
               n \in DOMAIN retval.variables
                   <=> (n \notin Reserved /\ ~callable(usage_globals[n]))
        /\ \A n \in DOMAIN retval.variables :
               /\ n \in DOMAIN usage_globals
               /\ retval.variables[n] = str(usage_globals[n])
               /\ ~IsToolProxy(n)
               /\ usage_globals[n] # Function(n)

\* A successful run that bound a value, a function and the name context with
\* a proxy in the namespace: only the value is in the map.
C31_Witness ==
    /\ Succeeded
    /\ {"x", "f", "echo", "context"} \subseteq DOMAIN usage_globals
    /\ usage_globals["context"] = IntOne
    /\ IsToolProxy("echo")
    /\ DOMAIN retval.variables = {"x"}
    /\ retval.variables["x"] = "1"

\* ---- C32
\* The step ends execute: it returns to its caller.
Returns == rpc # "ret" /\ rpc' = "ret"
\* The Worker ended without writing a well-formed result line.
Crashed == wpc = "exited" /\ GoodResults = <<>>

\* C32: execute never raises to its caller; a missing worker script, a
\* failure to create an artifact, to normalize the code or to launch the
\* Worker, and a Worker that crashed, are each returned as a result with
\* success false and an error text.
C32_NeverRaises ==
    /\ [](rpc # "raised")
    /\ [][Returns =>
            /\ retval'.success \in BOOLEAN
            /\ (\/ rpc \in {"idle", "ctx", "normalize", "codefile", "launch"}
                \/ rpc = "read" /\ Crashed)
                   => /\ ~retval'.success
                      /\ retval'.error \notin {"none", None}
                      /\ retval'.output = <<>>]_vars

\* execute returned the failure of a code that could not be normalized,
\* after the context artifact was written.
C32_Witness ==
    /\ rpc = "ret"
    /\ context_file /\ ~code_file
    /\ normalize(code).raised
    /\ retval = Failure("exception")

\* ---- C33
IsToolCall(l) == l.tag = "TOOL_CALL"
IsProxyCall(l) == l.tag = "TOOL_CALL" /\ l.ok
\* The lines of the Worker the Coordinator has read so far.
LinesRead == SubSeq(wlines, 1, Len(wlines) - Len(wout))
\* The lines the Coordinator has written a response for, in order: the
\* tool-call-tagged lines it has read.
Responded == SelectSeq(LinesRead, IsToolCall)
\* The calls the tool proxies have issued, in order.
ProxyCalls == SelectSeq(wlines, IsProxyCall)

\* C33: the k-th response line the Coordinator writes answers the k-th call
\* issued by a tool proxy, and the k-th proxy call reads the response to its
\* own line, whatever tool-call-tagged lines the Worker's output holds.
C33_KthResponseKthCall ==
    /\ Len(Responded) <= Len(ProxyCalls)
    /\ \A k \in 1..Len(Responded) :
           k <= Len(ProxyCalls) => Responded[k] = ProxyCalls[k]
    /\ \A k \in 1..Len(proxied) :
           proxied[k].got = handle_tool_call(ProxyCalls[k])

\* The same for a snippet that writes no tool-call-tagged line of its own:
\* at most one response is in flight and each proxy reads the response to
\* its own call.
C33_SequentialWhenProxiesOnly ==
    ~HasMalformed("TOOL_CALL") =>
        /\ Len(win) <= 1
        /\ Len(Responded) <= Len(ProxyCalls)
        /\ \A k \in 1..Len(Responded) : Responded[k] = ProxyCalls[k]
        /\ \A k \in 1..Len(proxied) :
               proxied[k].got = handle_tool_call(ProxyCalls[k])

\* Two proxy calls were answered in a run without lines of the snippet's own.
C33_Witness ==
    /\ ~HasMalformed("TOOL_CALL")
    /\ Len(proxied) = 2
    /\ proxied[2].got = handle_tool_call(ProxyCalls[2])
    /\ proxied[1].arg # proxied[2].arg

\* ---- C34
GotResponse(r) == r.got # ConnectionClosed
\* The number of response lines the Coordinator has written so far: those
\* the proxies have read and those still on the Worker's stdin.
ResponsesWritten == Len(SelectSeq(proxied, GotResponse)) + Len(win)

Enqueued == StepsOf(enq)

\* C35: the StepRecords reach the session queue in increasing id order and
\* no two of them share an id, whatever the interleaving of the loop's
\* callbacks and of aforward with the hooks of the background context; no
\* id is allocated twice.
C35_QueueInIdOrder ==
    /\ \A i, j \in 1..Len(Enqueued) :
           i < j => Enqueued[i].id < Enqueued[j].id
    /\ \A i, j \in 1..Len(emitted) :
           i # j => emitted[i].id # emitted[j].id
    /\ step_data # NoStep =>
           /\ step_data.id = step_id
           /\ \A i \in 1..Len(emitted) : emitted[i].id < step_data.id

\* The queue holds the thinking record of aforward, a record of a hook that
\* the loop enqueued, and the completion record of aforward, ids 1, 2, 3.
C35_Witness ==
    /\ Len(Enqueued) = 3
    /\ Enqueued[1].type = "thinking" /\ Enqueued[1].id = 1
    /\ Enqueued[2].type = "code_execution" /\ Enqueued[2].id = 2
    /\ Enqueued[3].type = "complete" /\ Enqueued[3].id = 3

\* ---- C36
\* The step is a lifecycle hook (or a tool execution) of the engine.
HookStep == hooks' = hooks + 1
\* The step is a scope-end hook that found the stack empty.
EmptyEndStep ==
    /\ HookStep
    /\ module_stack = <<>>
    /\ Len(pops') = Len(pops) + 1

\* C36: no hook faults, whatever the sequence of hooks: each emits exactly one
\* record; a scope-end hook on an empty stack pops nothing, emits an end
\* record with no correlation id and no parent, and leaves the stack empty;
\* and the stack always holds distinct ids in strictly increasing order, none
\* greater than the id counter.
C36_UnbalancedHooksSafe ==
    /\ [](/\ emitRaised = {}
          /\ \A i \in 1..Len(module_stack) :
                 /\ module_stack[i] \in 1..step_id
                 /\ \A j \in 1..Len(module_stack) :
                        i < j => module_stack[i] < module_stack[j])
    /\ [][HookStep =>
            /\ Len(emitted') = Len(emitted) + 1
            /\ step_id' = step_id + 1
            /\ Last(emitted').id = step_id'
            /\ (module_stack = <<>>
                    /\ Last(emitted').type \in EndTypes) =>
                   /\ EmptyEndStep
                   /\ Last(pops') = NoId
                   /\ Last(emitted').ref = NoId
                   /\ Last(emitted').parent_id = NoId
                   /\ module_stack' = <<>>]_vars

\* A scope-end hook came after the stack had been emptied by another
\* scope-end: its record has no correlation id and no parent, and a later
\* scope-start is on the stack.
C36_Witness ==
    /\ Len(emitted) = 5
    /\ emitted[2].type = "tool_call_start"
    /\ emitted[3].type = "tool_call_end" /\ emitted[3].ref = emitted[2].id
    /\ emitted[4].type = "module_end"
    /\ emitted[4].ref = NoId /\ emitted[4].parent_id = NoId
    /\ pops = <<emitted[2].id, NoId>>
    /\ emitted[5].type = "module_start"
    /\ module_stack = <<emitted[5].id>>

\* ---- C37
\* The producer task has finished (returned or raised).
ProducerFinished == prod \in {"done", "failed"}

\* C37: when the producer finishes exactly one of the result slot and the
\* error slot is set: the result slot when the run succeeded or raised a
\* KeyError, the error slot (with the fault) when it raised any other fault.
C37_ExactlyOneSlot ==
    ProducerFinished =>
        /\ (result = None) <=> (error # None)
        /\ (streamEnd.fault = None \/ IsKeyError(streamEnd.fault)) =>
               result # None /\ error = None
        /\ (streamEnd.fault # None /\ ~IsKeyError(streamEnd.fault)) =>
               error = streamEnd.fault /\ result = None

\* The part that holds for every fault: exactly one slot is set, never both
\* and never neither, and the error slot holds the fault the run raised.
C37_OneSlotSet ==
    ProducerFinished =>
        /\ (result = None) <=> (error # None)
        /\ error # None => error = streamEnd.fault /\ prod = "failed"
        /\ result # None => prod = "done"

\* The producer failed with the error slot set and the result slot empty.
C37_Witness ==
    /\ prod = "failed"
    /\ error = "RateLimit"
    /\ result = None

\* ------------------------------------------------- the returned result
\* The payload of the last well-formed result line the Worker wrote.
LastPayload == json_loads(Last(GoodResults))

\* C38: execute returns once per request; when at least one well-formed
\* result line was read from the Worker, what it returns is the payload of
\* the last one read, never the "exited without result" failure, and every
\* line the Worker wrote after a result line has been processed as well.
C38_LastResultReturned ==
    /\ [](rpc = "ret" =>
            /\ wout = <<>>
            /\ GoodResults # <<>> => retval = LastPayload)
    /\ [][rpc = "ret" => rpc' = "ret" /\ retval' = retval]_vars

\* The same for result lines whose payload is not empty: the last one read
\* is returned when its payload is a dict with keys.
C38_NonEmptyResultReturned ==
    /\ [](rpc = "ret" =>
            /\ wout = <<>>
            /\ (GoodResults # <<>> /\ LastPayload # EmptyDict) =>
                   retval = LastPayload)
    /\ [][rpc = "ret" => rpc' = "ret" /\ retval' = retval]_vars

\* execute returned the payload of the Worker's result line, read after a
\* result line the snippet wrote itself.
C38_Witness ==
    /\ rpc = "ret"
    /\ Len(GoodResults) = 2
    /\ GoodResults[1] = EmptyResultLine
    /\ retval = LastPayload
    /\ LastPayload # EmptyDict

\* ------------------------------------------------- code normalization
\* The code holds the escaped line-break sequence and either no real line
\* break or more escaped sequences than real line breaks.
EscapedDominates(c) ==
    /\ Count(c, "ENL") > 0
    /\ \/ Count(c, "NL") = 0
       \/ Count(c, "ENL") > Count(c, "NL")

\* C39: the code written for the Worker differs from the code passed to
\* execute only when the code holds the escaped line-break sequence and
\* either no real line break or more escaped sequences than real ones; with
\* no escaped sequence, or at least as many real line breaks as escaped
\* sequences, the code written is the input.
C39_NormalizeOnlyEscaped ==
    rpc = "launch" =>
        /\ processed # code => EscapedDominates(code)
        /\ (\/ Count(code, "ENL") = 0
            \/ Count(code, "NL") >= Count(code, "ENL")) => processed = code

\* The code artifact was written with a code that normalization changed
\* although it holds a real line break: it holds more escaped ones.
C39_Witness ==
    /\ rpc = "launch"
    /\ code_file
    /\ processed # code
    /\ Count(code, "NL") > 0
    /\ Count(code, "ENL") > Count(code, "NL")

\* The code artifact was written unchanged for a code that holds an escaped
\* line break and as many real ones.
C39_WitnessUnchanged ==
    /\ rpc = "launch"
    /\ code_file
    /\ processed = code
    /\ Count(code, "ENL") > 0
    /\ Count(code, "NL") >= Count(code, "ENL")

====
